---- MODULE Spec2Model ----
(***************************************************************************)
(* Incident orchestration state machine and confidence protocol.           *)
(*                                                                         *)
(* The state store (RedisStateManager), the orchestrator phase handlers    *)
(* (Orchestrator / EnhancedOrchestrator), the approval handshake           *)
(* (SlackWebhookHandler.handleApproval) and the PagerDuty webhook handlers *)
(* are modelled from the JavaScript sources.  Opaque payloads (texts,      *)
(* timestamps, identifiers) are abstracted to tokens that keep the         *)
(* null / non-null distinction the code branches on.                       *)
(***************************************************************************)
EXTENDS Integers, Sequences, FiniteSets, TLC

VARIABLES
    store,      \* incident:<id> namespace of the state store: id -> stored record
    approvals,  \* approval:<id> namespace of the state store: id -> pending approval
    env,        \* config.server.env
    last,       \* call trace of the handler that ran last (observation only)
    ev          \* inputs and outputs of the confidence evaluator (SpecEval)

vars == <<store, approvals, env, last, ev>>

----------------------------------------------------------------------------
(* Bounds of the model *)

NumIncidents == 1
MaxEdgeCases == 2

Incidents == 1..NumIncidents

----------------------------------------------------------------------------
(* Values *)

NULL == "null"      \* null / undefined of a string- or object-valued field
NULLN == -1         \* null / undefined of a number-valued field
TS == "ts"          \* new Date().toISOString()

TRIGGERED == "TRIGGERED"
INVESTIGATING == "INVESTIGATING"
HYPOTHESIS_RECEIVED == "HYPOTHESIS_RECEIVED"
CONTEXT_RETRIEVED == "CONTEXT_RETRIEVED"
SYNTHESIZING == "SYNTHESIZING"
EXECUTING == "EXECUTING"
VERIFYING == "VERIFYING"
RESOLVED == "RESOLVED"
ESCALATED == "ESCALATED"

STAGES == {TRIGGERED, INVESTIGATING, HYPOTHESIS_RECEIVED, CONTEXT_RETRIEVED,
           SYNTHESIZING, EXECUTING, VERIFYING, RESOLVED, ESCALATED}

Terminal == {RESOLVED, ESCALATED}

Risks == {"LOW", "MEDIUM", "HIGH", "UNKNOWN"}

EdgeCaseTypes == {"ambiguous_root_cause", "multiple_failures", "cascading_failure",
                  "novel_failure", "conflicting_evidence", "low_confidence",
                  "high_blast_radius", "data_sensitive", "customer_facing_critical"}

\* fields whose values are numbers; every other field holds a token
NumFields == {"hypothesis_confidence", "context_match_score", "remediation_confidence",
              "execution_exit_code", "cleric_confidence"}

----------------------------------------------------------------------------
(* JavaScript object helpers *)

\* obj.name, undefined when the property is absent
Field(obj, name) ==
    IF name \in DOMAIN obj THEN obj[name]
    ELSE IF name \in NumFields THEN NULLN ELSE NULL

\* value || null on a number (0 and undefined are falsy)
OrNullN(v) == IF v = 0 \/ v = NULLN THEN NULLN ELSE v

\* value || 0 on a number
OrZero(v) == IF v = NULLN THEN 0 ELSE v

\* { ...a, ...b }
Spread(a, b) ==
    [k \in (DOMAIN a) \cup (DOMAIN b) |-> IF k \in DOMAIN b THEN b[k] ELSE a[k]]

NoFields == [k \in {} |-> NULL]

----------------------------------------------------------------------------
(* RedisStateManager *)

\* the record setIncidentState serialises: a fixed list of fields, each
\* defaulted with "|| null"; every other property of state is not written
IncidentData(incidentId, state) ==
    [incident_id |-> incidentId,
     current_stage |-> IF Field(state, "current_stage") = NULL
                       THEN TRIGGERED ELSE state.current_stage,
     hypothesis |-> Field(state, "hypothesis"),
     hypothesis_confidence |-> OrNullN(Field(state, "hypothesis_confidence")),
     context |-> IF Field(state, "context") # NULL THEN state.context
                 ELSE Field(state, "sanity_context"),
     context_match_score |-> OrNullN(Field(state, "context_match_score")),
     remediation_code |-> Field(state, "remediation_code"),
     anthropic_reasoning |-> Field(state, "anthropic_reasoning"),
     coder_workspace_id |-> Field(state, "coder_workspace_id"),
     verification_status |-> Field(state, "verification_status"),
     created_at |-> IF Field(state, "created_at") = NULL THEN TS ELSE state.created_at,
     updated_at |-> TS,
     alert_payload |-> Field(state, "alert_payload"),
     service_id |-> Field(state, "service_id"),
     title |-> Field(state, "title"),
     urgency |-> Field(state, "urgency")]

setIncidentState(inc, incidentId, state) ==
    [k \in (DOMAIN inc) \cup {incidentId} |->
        IF k = incidentId THEN IncidentData(incidentId, state) ELSE inc[k]]

\* getIncidentState returns null for an absent key
hasIncident(inc, incidentId) == incidentId \in DOMAIN inc

\* an update that writes the record whether or not the key exists
updateIncidentStateUpsert(inc, incidentId, updates) ==
    [ok |-> TRUE,
     inc |-> setIncidentState(inc, incidentId,
                 IF hasIncident(inc, incidentId)
                 THEN Spread(inc[incidentId], updates) ELSE updates)]

\* updateIncidentState: ok = FALSE models the thrown "not found" error
updateIncidentState(inc, incidentId, updates) ==
    IF ~hasIncident(inc, incidentId)
    THEN [ok |-> FALSE, inc |-> inc]
    ELSE [ok |-> TRUE,
          inc |-> setIncidentState(inc, incidentId, Spread(inc[incidentId], updates))]

\* transitionStage: ok = FALSE models the thrown "not found" error
transitionStage(inc, incidentId, newStage, additionalData) ==
    IF ~hasIncident(inc, incidentId)
    THEN [ok |-> FALSE, inc |-> inc]
    ELSE LET current == inc[incidentId]
             stageHistory ==
                 Append(IF "stage_history" \in DOMAIN current
                        THEN current.stage_history ELSE <<>>,
                        [from |-> current.current_stage, to |-> newStage,
                         timestamp |-> TS])
         IN [ok |-> TRUE,
             inc |-> setIncidentState(inc, incidentId,
                        Spread(Spread(current, additionalData),
                               [current_stage |-> newStage,
                                stage_history |-> stageHistory]))]

setPendingApproval(app, incidentId, approvalData) ==
    [k \in (DOMAIN app) \cup {incidentId} |->
        IF k = incidentId
        THEN Spread(approvalData, [requested_at |-> TS])
        ELSE app[k]]

hasPendingApproval(app, incidentId) == incidentId \in DOMAIN app

clearPendingApproval(app, incidentId) ==
    [k \in (DOMAIN app) \ {incidentId} |-> app[k]]

----------------------------------------------------------------------------
(* Confidence protocol *)

\* config.confidence.autoExecuteThreshold
autoExecuteThreshold == 90
\* config.confidence.contextMatchThreshold
configContextMatchThreshold == 85
\* fallback of the Orchestrator constructor
fallbackContextMatchThreshold == 70
\* fixed remediation confidence floor
remediationConfidenceFloor == 70

confidenceThreshold == autoExecuteThreshold

\* Orchestrator constructor: config.confidence.contextMatchThreshold || 70
contextMatchThreshold ==
    IF configContextMatchThreshold = 0
    THEN fallbackContextMatchThreshold ELSE configContextMatchThreshold

\* EnhancedOrchestrator constructor: config.confidence.contextMatchThreshold
enhancedContextMatchThreshold == configContextMatchThreshold

\* the four scalar checks with "<=" in place of "<": a value equal to its
\* threshold is declined
evaluateConfidenceStrict(ctxThreshold, hypothesisConfidence, contextMatchScore, remediationConfidence, risk) ==
    IF risk = "HIGH" THEN FALSE
    ELSE IF OrZero(hypothesisConfidence) <= confidenceThreshold THEN FALSE
    ELSE IF OrZero(contextMatchScore) <= ctxThreshold THEN FALSE
    ELSE IF OrZero(remediationConfidence) <= remediationConfidenceFloor THEN FALSE
    ELSE TRUE

\* the scalar checks without the risk check
evaluateConfidenceNoRisk(ctxThreshold, hypothesisConfidence, contextMatchScore, remediationConfidence, risk) ==
    IF OrZero(hypothesisConfidence) < confidenceThreshold THEN FALSE
    ELSE IF OrZero(contextMatchScore) < ctxThreshold THEN FALSE
    ELSE IF OrZero(remediationConfidence) < remediationConfidenceFloor THEN FALSE
    ELSE TRUE

\* the four scalar checks, with the context threshold of the calling instance
evaluateConfidenceWith(ctxThreshold, hypothesisConfidence, contextMatchScore, remediationConfidence, risk) ==
    IF risk = "HIGH" THEN FALSE
    ELSE IF OrZero(hypothesisConfidence) < confidenceThreshold THEN FALSE
    ELSE IF OrZero(contextMatchScore) < ctxThreshold THEN FALSE
    ELSE IF OrZero(remediationConfidence) < remediationConfidenceFloor THEN FALSE
    ELSE TRUE

\* Orchestrator.evaluateConfidence on the base orchestrator
evaluateConfidence(hypothesisConfidence, contextMatchScore, remediationConfidence, risk) ==
    evaluateConfidenceWith(contextMatchThreshold, hypothesisConfidence,
                           contextMatchScore, remediationConfidence, risk)

criticalEdgeCases ==
    {"novel_failure", "conflicting_evidence", "data_sensitive", "high_blast_radius"}

\* EnhancedOrchestrator.evaluateConfidenceEnhanced
evaluateConfidenceEnhanced(hypothesisConfidence, contextMatchScore, remediationConfidence, risk, edgeCases) ==
    LET baseResult == evaluateConfidenceWith(enhancedContextMatchThreshold,
                          hypothesisConfidence, contextMatchScore,
                          remediationConfidence, risk)
    IN IF ~baseResult THEN FALSE
       ELSE IF \E ec \in edgeCases : ec \in criticalEdgeCases THEN FALSE
       ELSE TRUE

----------------------------------------------------------------------------
(* EdgeCaseHandler *)

\* options.confidenceThreshold || 60
lowConfidenceThreshold == 60

\* service names that contain one of the critical service keywords
CriticalServiceNames == {"payment", "auth", "checkout", "api-gateway", "database"}

\* runbook contexts handed to detect: the number of results and maxScore in
\* percent (1.0 with results, 0.0 without)
RunbookContexts ==
    {[results |-> n, maxScore |-> IF n > 0 THEN 100 ELSE 0] : n \in {0, 1}}

\* EdgeCaseHandler._isNovelFailure
isNovelFailure(runbookContext) ==
    IF runbookContext.results = 0 THEN TRUE
    ELSE runbookContext.maxScore < 50

\* String.prototype.includes on the texts the model uses: the keywords of
\* the detector that occur in a text (a text contains itself)
Contained(text) ==
    {text} \cup
    CASE text = "pool could be exhausted, possibly a leak" -> {"could be", "possibly"}
      [] text = "cascade after a restart" -> {"cascade", "restart"}
      [] text = "delete stale rows" -> {"delete"}
      [] text = "don't restart the primary" -> {"don't restart", "restart"}
      [] text = "checkout errors" -> {"checkout", "or"}
      [] text = "payment-api" -> {"payment"}
      [] OTHER -> {}

Includes(text, kw) == kw \in Contained(text)

\* EdgeCaseHandler._isAmbiguousRootCause
isAmbiguousRootCause(hypothesis) ==
    Cardinality({ind \in {"could be", "might be", "possibly", "or", "alternatively"} :
                     Includes(Field(hypothesis, "hypothesis"), ind)}) >= 2

\* EdgeCaseHandler._hasMultipleFailures: affectedServices and failureTypes
\* are carried by their lengths
hasMultipleFailures(hypothesis) ==
    \/ "affectedServices" \in DOMAIN hypothesis /\ hypothesis.affectedServices > 2
    \/ "failureTypes" \in DOMAIN hypothesis /\ hypothesis.failureTypes > 2

\* EdgeCaseHandler._isCascadingFailure
isCascadingFailure(hypothesis) ==
    \E kw \in {"cascade", "propagat", "domino", "chain reaction", "downstream",
               "upstream failure"} :
        Includes(Field(hypothesis, "hypothesis"), kw)

\* EdgeCaseHandler._hasConflictingEvidence: the runbook context carries the
\* content of its result
hasConflictingEvidence(hypothesis, runbookContext) ==
    IF runbookContext.results = 0 THEN FALSE
    ELSE \E c \in {<<"restart", "don't restart">>, <<"scale up", "scale down">>,
                   <<"increase", "decrease">>, <<"enable", "disable">>} :
             /\ Includes(Field(runbookContext, "content"), c[2])
             /\ \/ Includes(Field(hypothesis, "hypothesis"), c[1])
                \/ Includes(Field(hypothesis, "recommendation"), c[1])

\* EdgeCaseHandler._isHighBlastRadius
isHighBlastRadius(incidentContext) ==
    IF Field(incidentContext, "urgency") = "high" THEN TRUE
    ELSE \E cs \in CriticalServiceNames :
             Includes(IF Field(incidentContext, "service_name") # NULL
                      THEN incidentContext.service_name
                      ELSE Field(incidentContext, "service"), cs)

\* EdgeCaseHandler._isDataSensitive: the keywords are looked for in
\* JSON.stringify(hypothesis), that is in every text of the hypothesis
isDataSensitive(hypothesis) ==
    \E kw \in {"delete", "drop", "truncate", "purge", "user data", "pii",
               "personal", "payment", "credential", "secret", "key", "token"} :
        \/ Includes(Field(hypothesis, "hypothesis"), kw)
        \/ Includes(Field(hypothesis, "recommendation"), kw)

\* EdgeCaseHandler._isCriticalCustomerFacing
isCriticalCustomerFacing(incidentContext) ==
    \E kw \in {"checkout", "payment", "login", "signup", "cart", "order"} :
        \/ Includes(Field(incidentContext, "title"), kw)
        \/ Includes(Field(incidentContext, "service_name"), kw)

\* EdgeCaseHandler constructor: options.confidenceThreshold || 60
confidenceThresholdOf(option) ==
    IF option = NULLN \/ option = 0 THEN lowConfidenceThreshold ELSE option

\* (hypothesis.confidence || 50) < this.confidenceThreshold
isLowConfidence(threshold, confidence) ==
    (IF OrZero(confidence) = 0 THEN 50 ELSE confidence) < threshold

\* a detector in which a critical customer-facing incident also requires a
\* human
detectWithCustomerFacingForced(threshold, hypothesis, incidentContext, runbookContext) ==
    LET tag(c, name) == IF c THEN {name} ELSE {}
        novel == isNovelFailure(runbookContext)
        conflict == hasConflictingEvidence(hypothesis, runbookContext)
        blast == isHighBlastRadius(incidentContext)
        sensitive == isDataSensitive(hypothesis)
        customer == isCriticalCustomerFacing(incidentContext)
    IN [edgeCases |->
               tag(isLowConfidence(threshold, Field(hypothesis, "confidence")),
                   "low_confidence")
          \cup tag(isAmbiguousRootCause(hypothesis), "ambiguous_root_cause")
          \cup tag(hasMultipleFailures(hypothesis), "multiple_failures")
          \cup tag(isCascadingFailure(hypothesis), "cascading_failure")
          \cup tag(novel, "novel_failure")
          \cup tag(conflict, "conflicting_evidence")
          \cup tag(blast, "high_blast_radius")
          \cup tag(sensitive, "data_sensitive")
          \cup tag(customer, "customer_facing_critical"),
        requiresHuman |-> (novel \/ conflict \/ blast \/ sensitive \/ customer)]

\* EdgeCaseHandler.detect of a handler constructed with the given threshold
detectWith(threshold, hypothesis, incidentContext, runbookContext) ==
    LET tag(c, name) == IF c THEN {name} ELSE {}
        novel == isNovelFailure(runbookContext)
        conflict == hasConflictingEvidence(hypothesis, runbookContext)
        blast == isHighBlastRadius(incidentContext)
        sensitive == isDataSensitive(hypothesis)
    IN [edgeCases |->
               tag(isLowConfidence(threshold, Field(hypothesis, "confidence")),
                   "low_confidence")
          \cup tag(isAmbiguousRootCause(hypothesis), "ambiguous_root_cause")
          \cup tag(hasMultipleFailures(hypothesis), "multiple_failures")
          \cup tag(isCascadingFailure(hypothesis), "cascading_failure")
          \cup tag(novel, "novel_failure")
          \cup tag(conflict, "conflicting_evidence")
          \cup tag(blast, "high_blast_radius")
          \cup tag(sensitive, "data_sensitive")
          \cup tag(isCriticalCustomerFacing(incidentContext),
                   "customer_facing_critical"),
        requiresHuman |-> (novel \/ conflict \/ blast \/ sensitive)]

\* EdgeCaseHandler.detect of a handler constructed without options
detect(hypothesis, incidentContext, runbookContext) ==
    detectWith(lowConfidenceThreshold, hypothesis, incidentContext, runbookContext)

----------------------------------------------------------------------------
(* Handler execution: the store as the handler sees it, the call trace of   *)
(* the handler, and whether an exception is propagating.                    *)

NewTrace(op, id) ==
    [op |-> op, id |-> id,
     gate |-> "none",          \* branch taken by the synthesis gate: none / auto / approval
     evalResult |-> FALSE,     \* value the confidence evaluator returned
     requiresApproval |-> FALSE, \* remediation.requiresApproval at the gate
     decision |-> "none",      \* decision consumed by handleApproval: approve / reject / missing
     execEntered |-> 0,        \* entries of executeRemediation
     approvalRequests |-> 0,   \* calls of requestHumanApproval
     approvalOverwritten |-> FALSE, \* setPendingApproval replaced an existing record
     executed |-> 0,           \* calls of coderClient.executeInWorkspace
     workspaces |-> 0,         \* workspaces created
     deleted |-> 0,            \* calls of coderClient.deleteWorkspace
     notes |-> 0,              \* calls of pagerdutyClient.addNote
     trans |-> <<>>,           \* the new stage of every transitionStage of the handler
     escalations |-> <<>>,     \* the error_stage handed to every transition to ESCALATED
     log |-> {},               \* what the handler and its collaborators logged
     created |-> "none",       \* current_stage of the record the handler created
     threw |-> FALSE]          \* an exception escaped the handler

World(inc, app, t) == [inc |-> inc, app |-> app, t |-> t, exc |-> FALSE]

\* evaluate v once and continue with its value
Bind(v, F(_)) == CHOOSE r \in {F(x) : x \in {v}} : TRUE

\* sequencing of awaited calls: a propagating exception skips what follows
Then(v, F(_)) == Bind(v, LAMBDA w : IF w.exc THEN w ELSE F(w))

\* throw
Throw(v) == Bind(v, LAMBDA w : [w EXCEPT !.exc = TRUE])

\* await stateManager.transitionStage(...)
Transition(v, id, newStage, additionalData) ==
    Bind(v, LAMBDA w :
        Bind(transitionStage(w.inc, id, newStage, additionalData), LAMBDA r :
            IF r.ok
            THEN [w EXCEPT !.inc = r.inc,
                           !.t.trans = Append(@, newStage),
                           !.t.escalations =
                               IF newStage = ESCALATED
                               THEN Append(@, Field(additionalData, "error_stage"))
                               ELSE @]
            ELSE [w EXCEPT !.exc = TRUE]))

\* await stateManager.updateIncidentState(...)
Update(v, id, updates) ==
    Bind(v, LAMBDA w :
        Bind(updateIncidentState(w.inc, id, updates), LAMBDA r :
            IF r.ok THEN [w EXCEPT !.inc = r.inc] ELSE [w EXCEPT !.exc = TRUE]))

Count(v, f) == Bind(v, LAMBDA w : [w EXCEPT !.t[f] = @ + 1])

\* logger.info / logger.warn / logger.error with the given message
Log(v, message) == Bind(v, LAMBDA w : [w EXCEPT !.t.log = @ \cup {message}])

\* a catch block that logs the error and does not transition
TryLogOnly(body, id, additionalData) ==
    Bind(body, LAMBDA w : [w EXCEPT !.exc = FALSE])

\* try { body } catch { transitionStage(ESCALATED, additionalData) }
TryEscalate(body, id, additionalData) ==
    Bind(body, LAMBDA w :
        IF w.exc
        THEN Transition([w EXCEPT !.exc = FALSE], id, ESCALATED, additionalData)
        ELSE w)

----------------------------------------------------------------------------
(* Orchestrator (base) *)

\* Orchestrator.verifyRemediation
\*   o.health : result of lightpandaClient.healthCheck, consulted only when the
\*              stored record has a health_check_url
\*   o.note   : result of pagerdutyClient.addNote
verifyRemediation(w0, id, o) ==
    TryEscalate(
      Then(Transition(w0, id, VERIFYING, NoFields), LAMBDA w1 :
        LET healthUrl == Field(w1.inc[id], "health_check_url")
            success == IF healthUrl # NULL THEN o.health = "success" ELSE TRUE
        IN IF healthUrl # NULL /\ o.health = "throw" THEN Throw(w1) ELSE
           Then(Update(w1, id,
                   [verification_status |-> IF success THEN "passed" ELSE "failed",
                    verification_result |-> "verification",
                    verified_at |-> TS]), LAMBDA w2 :
           Then(Transition(Log(w2, IF success
                                   THEN "Remediation verified successfully"
                                   ELSE "Remediation verification failed"),
                   id, IF success THEN RESOLVED ELSE ESCALATED,
                   IF success
                   THEN [resolution |-> "auto_remediated", resolved_at |-> TS]
                   ELSE [error |-> "Verification failed after remediation",
                         verification_result |-> "verification"]), LAMBDA w3 :
           Then(Count(w3, "notes"), LAMBDA w4 :
           IF o.note = "throw" THEN Throw(w4) ELSE w4)))),
      id, [error |-> "error", error_stage |-> "verification"])

\* EnhancedOrchestrator.verifyRemediation
\*   o.health : result of the verification swarm over the URLs of the service
\*              preset (every preset has URLs, so the swarm always runs)
\*   o.note   : result of pagerdutyClient.addNote
\* handleResolutionEnhanced returns at once: the incidentState it is handed
\* was read before the transition to RESOLVED and carries no resolution.
verifyRemediationEnhanced(w0, id, o) ==
    TryEscalate(
      Then(Transition(w0, id, VERIFYING, NoFields), LAMBDA w1 :
        IF o.health = "throw" THEN Throw(w1) ELSE
        Bind(o.health = "success", LAMBDA success :
           Then(Update(w1, id,
                   [verification_status |-> IF success THEN "passed" ELSE "failed",
                    verification_result |-> "summary",
                    post_verification_result |-> "verification",
                    verified_at |-> TS]), LAMBDA w2 :
           Then(Transition(Log(w2, IF success
                                   THEN "Remediation verified successfully (enhanced)"
                                   ELSE "Remediation verification failed (enhanced)"),
                   id, IF success THEN RESOLVED ELSE ESCALATED,
                   IF success
                   THEN [resolution |-> "auto_remediated", resolved_at |-> TS]
                   ELSE [error |-> "Verification failed after remediation",
                         verification_result |-> "verification"]), LAMBDA w3 :
           Then(Count(w3, "notes"), LAMBDA w4 :
           IF o.note = "throw" THEN Throw(w4) ELSE w4))))),
      id, [error |-> "error", error_stage |-> "verification"])

\* Orchestrator.runPreFlightCheck: null when no health_check_url is stored
runPreFlightCheck(incidentState, o) ==
    IF Field(incidentState, "health_check_url") = NULL THEN "null" ELSE o.pre

\* CoderClient._execCommand: exitCode is response.data.exit_code || 0, so a
\* response without exit_code ("missing") yields exit code 0
execCommandExitCode(exec) ==
    IF exec = "zero" \/ exec = "missing" THEN 0
    ELSE IF exec = "nonzero" THEN 1 ELSE NULLN

\* Orchestrator.executeRemediation, as run on the base orchestrator
\* (enhanced = FALSE) or through super.executeRemediation on an
\* EnhancedOrchestrator (enhanced = TRUE), where this.verifyRemediation is
\* the overriding method
\*   o.pre   : lightpandaClient.healthCheck before execution (success / failure / throw)
\*   o.ws    : coderClient.createWorkspace (ok / null / throw)
\*   o.ready : coderClient.waitForWorkspace (true / false / throw)
\*   o.exec  : coderClient.executeInWorkspace (zero / nonzero / missing / null / throw)
executeRemediationOn(enhanced, w0, id, o) ==
    TryEscalate(
      Then(Count(w0, "execEntered"), LAMBDA wE :
        IF ~hasIncident(wE.inc, id) THEN Throw(wE)
        ELSE IF wE.inc[id].remediation_code = NULL THEN Throw(wE)
        ELSE
        LET incidentState == wE.inc[id]
            preFlightCheck == runPreFlightCheck(incidentState, o)
        IN
        Then(Transition(wE, id, EXECUTING, NoFields), LAMBDA w1 :
          IF preFlightCheck = "throw" THEN Throw(w1)
          ELSE IF preFlightCheck = "success"
          THEN Transition(Log(w1, "Pre-flight check passed"), id, RESOLVED,
                          [resolution |-> "self_healed", resolved_at |-> TS])
          ELSE IF o.ws = "null"
          THEN Throw(Log(w1, "Coder not configured - cannot create workspace"))
          ELSE IF o.ws = "throw" THEN Throw(w1)
          ELSE
          Then(Update(Count(w1, "workspaces"), id,
                      [coder_workspace_id |-> "workspace",
                       coder_workspace_name |-> "remediation"]), LAMBDA w2 :
            IF o.ready = "throw" \/ o.ready = "false" THEN Throw(w2)
            ELSE
            Then(Count(w2, "executed"), LAMBDA w3 :
              IF o.exec = "throw" THEN Throw(w3) ELSE
              Then(Update(w3, id,
                     [execution_result |-> o.exec,
                      execution_exit_code |-> execCommandExitCode(o.exec),
                      executed_at |-> TS]), LAMBDA w4 :
              Then(IF o.exec # "null" /\ execCommandExitCode(o.exec) = 0
                   THEN IF enhanced
                        THEN verifyRemediationEnhanced(w4, id, o)
                        ELSE verifyRemediation(w4, id, o)
                   ELSE Transition(Log(w4, "Remediation execution failed"),
                          id, ESCALATED,
                          [error |-> "Execution failed", stderr |-> "stderr"]),
                   LAMBDA w5 : Count(w5, "deleted"))))))),
      id, [error |-> "error", error_stage |-> "execution"])

\* Orchestrator.executeRemediation
\* an executeRemediation that transitions to EXECUTING before it looks at
\* the stored remediation code
executeRemediationTransitionFirst(w0, id, o) ==
    executeRemediationOn(FALSE,
        IF hasIncident(w0.inc, id)
        THEN Transition(w0, id, EXECUTING, NoFields) ELSE w0, id, o)

\* an executeRemediation that first stores a pending approval for the
\* remediation it is about to run
executeRemediationWithPending(w0, id, o) ==
    executeRemediationOn(FALSE,
        [w0 EXCEPT !.app = setPendingApproval(@, id,
                               [remediation_code |-> "code"])], id, o)

executeRemediation(w0, id, o) == executeRemediationOn(FALSE, w0, id, o)

\* EnhancedOrchestrator.executeRemediationEnhanced
\*   o.pre : result of the pre-remediation swarm (success / failure / throw)
executeRemediationEnhanced(w0, id, o) ==
    TryEscalate(
      IF ~hasIncident(w0.inc, id) THEN Throw(w0)
      ELSE IF w0.inc[id].remediation_code = NULL THEN Throw(w0)
      ELSE
      Then(Transition(w0, id, EXECUTING, NoFields), LAMBDA w1 :
        IF o.pre = "throw" THEN Throw(w1) ELSE
        Then(Update(w1, id,
               [pre_verification_status |->
                    IF o.pre = "success" THEN "healthy" ELSE "unhealthy",
                pre_verification_result |-> "summary"]), LAMBDA w2 :
          IF o.pre = "success"
          THEN Transition(Log(w2, "Pre-flight check passed"), id, RESOLVED,
                          [resolution |-> "self_healed", resolved_at |-> TS])
          ELSE executeRemediationOn(TRUE, w2, id, o))),
      id, [error |-> "error", error_stage |-> "execution"])

\* Orchestrator.requestHumanApproval
\*   o.slack : slackClient.requestApproval (ok / null / throw)
requestHumanApproval(w0, id, remediation, hypothesis, o) ==
    TryEscalate(
      Then(Count(w0, "approvalRequests"), LAMBDA wA :
        LET w1 == [wA EXCEPT
                     !.t.approvalOverwritten = @ \/ hasPendingApproval(wA.app, id),
                     !.app = setPendingApproval(@, id,
                                [remediation_code |-> remediation.code,
                                 hypothesis |-> hypothesis.hypothesis,
                                 risk |-> remediation.risk])]
        IN IF o.slack = "throw" THEN Throw(w1)
           ELSE Then(Update(IF o.slack = "null"
                            THEN Log(w1, "Slack not configured - cannot request approval")
                            ELSE w1, id,
                  [pending_approval |-> "true",
                   approval_requested_at |-> TS,
                   approval_slack_ts |-> IF o.slack = "ok" THEN "ts" ELSE NULL]),
                  LAMBDA w2 : Log(w2, "Human approval requested"))),
      id, [error |-> "Failed to request approval"])

\* Orchestrator.synthesizeRemediation
\*   o.rem : aiClient.generateRemediation: kind "throw", kind "null" (provider
\*           not configured), or kind "result" with the parsed
\*           code, risk, confidence and requiresApproval
synthesizeRemediation(w0, id, hypothesis, incidentState, o) ==
    TryEscalate(
      Then(Transition(w0, id, SYNTHESIZING, NoFields), LAMBDA w1 :
        IF o.rem.kind = "throw" THEN Throw(w1)
        ELSE IF o.rem.kind = "null"
        THEN Transition(Log(w1, "No remediation code generated"), id, ESCALATED,
                        [error |-> "No remediation code generated",
                         anthropic_reasoning |-> NULL])
        ELSE IF o.rem.code = NULL
        THEN Transition(Log(w1, "No remediation code generated"), id, ESCALATED,
                        [error |-> "No remediation code generated",
                         anthropic_reasoning |-> "reasoning"])
        ELSE
        LET remediation == o.rem IN
        Then(Update(w1, id,
               [remediation_code |-> remediation.code,
                reproduction_code |-> NULL,
                remediation_language |-> "python",
                anthropic_reasoning |-> "reasoning",
                remediation_risk |-> remediation.risk,
                remediation_confidence |-> remediation.confidence]), LAMBDA w2 :
          Bind(evaluateConfidence(hypothesis.confidence,
                                  incidentState.context_match_score,
                                  remediation.confidence, remediation.risk),
               LAMBDA shouldAutoExecute :
            Bind([w2 EXCEPT
                    !.t.evalResult = shouldAutoExecute,
                    !.t.requiresApproval = remediation.requiresApproval,
                    !.t.gate = IF shouldAutoExecute /\ ~remediation.requiresApproval
                               THEN "auto" ELSE "approval"], LAMBDA w3 :
              IF shouldAutoExecute /\ ~remediation.requiresApproval
              THEN executeRemediation(w3, id, o)
              ELSE requestHumanApproval(w3, id, remediation, hypothesis, o))))),
      id, [error |-> "error", error_stage |-> "synthesis"])

\* Orchestrator.processHypothesis
\*   o.redact : skyflowClient.redact: "ok"; "undefined" when the service
\*              answers without redactedText, which makes .substring throw;
\*              "error" when the request fails, which the client logs and
\*              answers with the unredacted text
\*   o.search : sanityClient.search: "ok", or "error" when the request fails,
\*              which the client logs and answers with no results
\*   o.hits   : number of runbooks a successful search returns; maxScore is
\*              1.0 with results, 0.0 without
processHypothesis(w0, id, parsedHypothesis, o) ==
    TryEscalate(
      IF o.redact = "undefined" THEN Throw(w0) ELSE
      Bind(IF o.search = "error" THEN 0 ELSE o.hits, LAMBDA hits :
      Bind(IF o.redact = "error" THEN Log(w0, "Skyflow redaction failed") ELSE w0,
           LAMBDA wR :
      Bind(IF o.search = "error" THEN Log(wR, "Sanity search failed") ELSE wR,
           LAMBDA wS :
      Then(Transition(wS, id, CONTEXT_RETRIEVED,
              [sanity_context |-> IF hits > 0 THEN "results" ELSE "no_results",
               context_match_score |-> IF hits > 0 THEN 100 ELSE 0,
               parallel_research |-> NULL,
               query |-> "query"]), LAMBDA w1 :
        synthesizeRemediation(w1, id, parsedHypothesis, w1.inc[id], o))))),
      id, [error |-> "error", error_stage |-> "context_retrieval"])

----------------------------------------------------------------------------
(* Webhook handlers *)

\* handleApproval without the check for a pending approval: the decision is
\* acted on whether or not a record is found
handleApprovalUnguarded(w0, id, approved, o) ==
    Bind([w0 EXCEPT !.app = clearPendingApproval(@, id),
                    !.t.decision = IF approved THEN "approve" ELSE "reject"],
         LAMBDA w1 :
      IF approved
      THEN Then(Update(w1, id,
                  [human_approved |-> "true",
                   approved_by |-> "approver",
                   approved_at |-> TS]), LAMBDA w2 :
             executeRemediation(w2, id, o))
      ELSE Transition(w1, id, ESCALATED,
                      [human_rejected |-> "true",
                       rejected_by |-> "approver",
                       rejected_at |-> TS]))

\* SlackWebhookHandler.handleApproval
handleApproval(w0, id, approved, o) ==
    IF ~hasPendingApproval(w0.app, id)
    THEN [w0 EXCEPT !.t.decision = "missing"]
    ELSE
    Bind([w0 EXCEPT !.app = clearPendingApproval(@, id),
                    !.t.decision = IF approved THEN "approve" ELSE "reject"],
         LAMBDA w1 :
      IF approved
      THEN Then(Update(w1, id,
                  [human_approved |-> "true",
                   approved_by |-> "approver",
                   approved_at |-> TS]), LAMBDA w2 :
             executeRemediation(w2, id, o))
      ELSE Transition(w1, id, ESCALATED,
                      [human_rejected |-> "true",
                       rejected_by |-> "approver",
                       rejected_at |-> TS]))

\* PagerDutyWebhookHandler.handleIncidentTriggered
handleIncidentTriggered(w0, id, urgency) ==
    IF hasIncident(w0.inc, id) THEN w0
    ELSE Transition([w0 EXCEPT !.t.created = TRIGGERED,
                               !.inc = setIncidentState(@, id,
                        [current_stage |-> TRIGGERED,
                         incident_id |-> id,
                         title |-> "title",
                         urgency |-> urgency,
                         service_id |-> "service",
                         service_name |-> "service name",
                         alert_payload |-> "payload",
                         triggered_at |-> TS])],
                    id, INVESTIGATING, NoFields)

\* PagerDutyWebhookHandler.handleIncidentAnnotated
\*   note : "none" (no notes), "other" (latest note is not an investigation
\*          note), "unparsed" (parseNote fails), "parsed"
handleIncidentAnnotated(w0, id, note, parsedNote, o) ==
    IF note = "none" \/ note = "other" THEN w0
    ELSE
    Bind(IF ~hasIncident(w0.inc, id)
         THEN [w0 EXCEPT !.t.created = INVESTIGATING,
                         !.inc = setIncidentState(@, id,
                   [current_stage |-> INVESTIGATING,
                    incident_id |-> id,
                    title |-> "title",
                    triggered_at |-> TS])]
         ELSE w0, LAMBDA w1 :
      IF note = "unparsed" THEN w1
      ELSE
      Then(Transition(w1, id, HYPOTHESIS_RECEIVED,
             [cleric_hypothesis |-> parsedNote.hypothesis,
              cleric_confidence |-> parsedNote.confidence,
              cleric_root_cause |-> "root cause",
              cleric_recommendation |-> "recommendation",
              cleric_affected_services |-> "services",
              cleric_raw_note |-> "note",
              cleric_parsed_at |-> TS]), LAMBDA w2 :
        processHypothesis(w2, id, parsedNote, o)))

\* PagerDutyWebhookHandler.handleIncidentResolved
\* (orchestrator.handleResolution only logs)
handleIncidentResolved(w0, id) ==
    IF ~hasIncident(w0.inc, id) THEN w0
    ELSE Transition(w0, id, RESOLVED,
                    [resolved_at |-> TS, resolution_source |-> "pagerduty_event"])

\* PagerDutyWebhookHandler.handleIncidentAcknowledged
handleIncidentAcknowledged(w0, id) ==
    IF ~hasIncident(w0.inc, id) THEN w0
    ELSE Update(w0, id, [acknowledged_at |-> TS, acknowledged_by |-> "assignee"])

\* PagerDutyWebhookHandler.handleIncidentEscalated
handleIncidentEscalated(w0, id) ==
    IF ~hasIncident(w0.inc, id) THEN w0
    ELSE Transition(w0, id, ESCALATED,
                    [escalated_at |-> TS, escalation_policy |-> "policy"])

\* POST /debug/trigger (the route answers 403 in production before it is called)
debugTrigger(w0, id, hypothesis, o) ==
    Bind([hypothesis EXCEPT !.confidence = IF OrZero(@) = 0 THEN 85 ELSE @],
         LAMBDA parsedHypothesis :
      Bind([w0 EXCEPT !.t.created = HYPOTHESIS_RECEIVED,
                      !.inc = setIncidentState(@, id,
                [current_stage |-> HYPOTHESIS_RECEIVED,
                 title |-> "Debug incident",
                 hypothesis |-> hypothesis.hypothesis,
                 hypothesis_confidence |-> parsedHypothesis.confidence])],
           LAMBDA w1 : processHypothesis(w1, id, parsedHypothesis, o)))

\* POST /debug/approve
debugApprove(w0, id, o) ==
    Then(Update(w0, id,
           [human_approved |-> "true",
            approved_by |-> "debug-user",
            approved_at |-> TS]), LAMBDA w1 :
      executeRemediation(w1, id, o))

----------------------------------------------------------------------------
(* Inputs of the handlers and results of the collaborators *)

\* parsed investigation notes handed to processHypothesis
HypothesisInputs ==
    {[hypothesis |-> "hypothesis", confidence |-> c] : c \in {0, 90}}

\* the result record built from a model response: risk as matched in the
\* text, confidence from the wording cue, approval from risk or wording
parseRemediationResponse(risk, confidenceCue, approvalCue) ==
    [kind |-> "result", code |-> "code", risk |-> risk,
     confidence |-> IF risk = "HIGH" /\ confidenceCue > 40 THEN 40 ELSE confidenceCue,
     requiresApproval |-> (risk = "HIGH" \/ approvalCue)]

\* responses worded "likely" (confidence 70), of LOW or HIGH risk, with or
\* without a request for human review
RemediationResults ==
    {parseRemediationResponse(k, 70, a) : k \in {"LOW", "HIGH"}, a \in BOOLEAN}

NoRemediation(kind, code) ==
    [kind |-> kind, code |-> code, risk |-> "UNKNOWN", confidence |-> 0,
     requiresApproval |-> FALSE]

\* a collaborator that is not consulted on the path has result "na"
NoOutcome ==
    [redact |-> "ok", search |-> "ok", hits |-> 0, rem |-> NoRemediation("null", NULL),
     slack |-> "na", pre |-> "na", ws |-> "na", ready |-> "na", exec |-> "na",
     health |-> "na", note |-> "na"]

\* results along executeRemediation / verifyRemediation; url says whether the
\* stored record carries a health_check_url, the only case in which the health
\* check collaborator is consulted
ExecOutcomes(url) ==
    LET Pre == IF url THEN {"success", "failure", "throw"} ELSE {"na"}
        Health == IF url THEN {"success", "failure", "throw"} ELSE {"na"}
        Go == Pre \ {"success", "throw"}
    IN    {[NoOutcome EXCEPT !.pre = p] : p \in Pre \cap {"success", "throw"}}
     \cup {[NoOutcome EXCEPT !.pre = p, !.ws = x] : p \in Go, x \in {"null", "throw"}}
     \cup {[NoOutcome EXCEPT !.pre = p, !.ws = "ok", !.ready = x] :
                p \in Go, x \in {"false", "throw"}}
     \cup {[NoOutcome EXCEPT !.pre = p, !.ws = "ok", !.ready = "true", !.exec = x] :
                p \in Go, x \in {"throw", "null", "nonzero"}}
     \cup {[NoOutcome EXCEPT !.pre = p, !.ws = "ok", !.ready = "true",
                             !.exec = x, !.health = h, !.note = n] :
                p \in Go, x \in {"zero", "missing"}, h \in Health,
                n \in {"ok", "throw"}}

\* results along requestHumanApproval
ApprovalOutcomes ==
    {[NoOutcome EXCEPT !.slack = s] : s \in {"ok", "null", "throw"}}

\* results after the synthesis gate: those of the branch the gate takes
GateOutcomes(auto, url) == IF auto THEN ExecOutcomes(url) ELSE ApprovalOutcomes

\* results along processHypothesis and everything it calls
PipelineOutcomes(url, hypothesis) ==
         {[NoOutcome EXCEPT !.redact = "undefined"]}
    \cup {[NoOutcome EXCEPT !.hits = h, !.rem = r] :
               h \in {0, 1},
               r \in {NoRemediation("throw", NULL), NoRemediation("null", NULL),
                      NoRemediation("result", NULL)}}
    \cup UNION {
           {[e EXCEPT !.hits = h, !.rem = r] :
               e \in GateOutcomes(
                       evaluateConfidence(hypothesis.confidence,
                                          IF h > 0 THEN 100 ELSE NULLN,
                                          r.confidence, r.risk)
                       /\ ~r.requiresApproval, url)} :
           h \in {0, 1}, r \in RemediationResults}

healthUrlStored(inc, id) ==
    hasIncident(inc, id) /\ Field(inc[id], "health_check_url") # NULL

----------------------------------------------------------------------------
(* Spec: webhook deliveries, approval decisions and debug calls, each       *)
(* handler run to completion                                                *)

\* config.server.env when NODE_ENV is not set; "production" differs only in
\* that the two debug routes answer 403 without doing anything
defaultEnv == "development"

Init ==
    /\ store = NoFields
    /\ approvals = NoFields
    /\ env = defaultEnv
    /\ last = NewTrace("init", 0)
    /\ ev = [done |-> TRUE]

Start(op, id) == CHOOSE w \in {World(store, approvals, NewTrace(op, id))} : TRUE

\* the handler returned (or threw to the transport layer): its writes are in
\* the store
Finish(v) ==
    \E w \in {v} :
        /\ store' = w.inc
        /\ approvals' = w.app
        /\ last' = [w.t EXCEPT !.threw = w.exc]
        /\ UNCHANGED <<env, ev>>

IncidentTriggered(id) ==
    /\ id \in Incidents
    /\ \E urgency \in {"high", "low"} :
           Finish(handleIncidentTriggered(Start("triggered", id), id, urgency))

IncidentAnnotated(id) ==
    /\ id \in Incidents
    /\ \E note \in {"none", "other", "unparsed", "parsed"} :
       \E parsedNote \in IF note = "parsed" THEN HypothesisInputs
                         ELSE {[hypothesis |-> NULL, confidence |-> 0]} :
       \E o \in IF note = "parsed"
                 THEN PipelineOutcomes(healthUrlStored(store, id), parsedNote)
                 ELSE {NoOutcome} :
           Finish(handleIncidentAnnotated(Start("annotated", id), id, note,
                                          parsedNote, o))

IncidentResolved(id) ==
    /\ id \in Incidents
    /\ Finish(handleIncidentResolved(Start("resolved", id), id))

IncidentAcknowledged(id) ==
    /\ id \in Incidents
    /\ Finish(handleIncidentAcknowledged(Start("acknowledged", id), id))

IncidentEscalated(id) ==
    /\ id \in Incidents
    /\ Finish(handleIncidentEscalated(Start("escalated", id), id))

ApprovalDecision(id) ==
    /\ id \in Incidents
    /\ \E approved \in BOOLEAN :
       \E o \in IF approved THEN ExecOutcomes(healthUrlStored(store, id))
                 ELSE {NoOutcome} :
           Finish(handleApproval(Start("approval", id), id, approved, o))

DebugTrigger(id) ==
    /\ env # "production"
    /\ \E hypothesis \in HypothesisInputs :
       \E o \in PipelineOutcomes(FALSE,
                    [hypothesis EXCEPT !.confidence = IF OrZero(@) = 0 THEN 85 ELSE @]) :
           Finish(debugTrigger(Start("debug_trigger", id), id, hypothesis, o))

DebugApprove(id) ==
    /\ env # "production"
    /\ \E o \in ExecOutcomes(healthUrlStored(store, id)) :
           Finish(debugApprove(Start("debug_approve", id), id, o))

\* the approval:<id> key reaches its one hour TTL
ExpireApproval(id) ==
    /\ hasPendingApproval(approvals, id)
    /\ approvals' = clearPendingApproval(approvals, id)
    /\ last' = NewTrace("expire", id)
    /\ UNCHANGED <<store, env, ev>>

Next ==
    \E id \in Incidents :
        \/ IncidentTriggered(id)
        \/ IncidentAnnotated(id)
        \/ IncidentResolved(id)
        \/ IncidentAcknowledged(id)
        \/ IncidentEscalated(id)
        \/ ApprovalDecision(id)
        \/ DebugTrigger(id)
        \/ DebugApprove(id)
        \/ ExpireApproval(id)

Spec == Init /\ [][Next]_vars

----------------------------------------------------------------------------
(* SpecEval: the evaluators applied to bounded inputs *)

ScoreInputs == {NULLN, 0, 69, 70, 84, 85, 89, 90, 100}

EdgeCaseInputs == {s \in SUBSET EdgeCaseTypes : Cardinality(s) <= MaxEdgeCases}

InitEval ==
    /\ store = NoFields
    /\ approvals = NoFields
    /\ env = defaultEnv
    /\ last = NewTrace("init", 0)
    /\ \E h \in ScoreInputs, c \in ScoreInputs, r \in {NULLN, 0, 69, 70, 100},
          k \in Risks, e \in EdgeCaseInputs :
          ev = [done |-> FALSE, hypothesisConfidence |-> h, contextMatchScore |-> c,
                remediationConfidence |-> r, risk |-> k, edgeCases |-> e,
                base |-> FALSE, enhanced |-> FALSE]

Evaluate ==
    /\ ~ev.done
    /\ ev' = [ev EXCEPT
                !.done = TRUE,
                !.base = evaluateConfidence(ev.hypothesisConfidence,
                             ev.contextMatchScore, ev.remediationConfidence, ev.risk),
                !.enhanced = evaluateConfidenceEnhanced(ev.hypothesisConfidence,
                             ev.contextMatchScore, ev.remediationConfidence, ev.risk,
                             ev.edgeCases)]
    /\ UNCHANGED <<store, approvals, env, last>>

NextEval == Evaluate

SpecEval == InitEval /\ [][NextEval]_vars

----------------------------------------------------------------------------
(* SpecDetect: EdgeCaseHandler.detect applied to bounded inputs *)

\* options.confidenceThreshold handed to the constructor (absent, or set)
ThresholdOptions == {NULLN, 40, 80}

ConfidenceInputs == {NULLN, 0, 39, 40, 50, 59, 60, 79, 80, 100}

DetectHypotheses ==
    {[hypothesis |-> t, confidence |-> c, recommendation |-> r,
      affectedServices |-> n] :
        t \in {"hypothesis", "pool could be exhausted, possibly a leak",
               "cascade after a restart"},
        c \in ConfidenceInputs,
        r \in {"recommendation", "delete stale rows"},
        n \in {0, 3}}

DetectIncidents ==
    {[urgency |-> u, service_name |-> sn, title |-> t] :
        u \in {"high", "low"},
        sn \in {"service name", "payment-api"},
        t \in {"title", "checkout errors"}}

DetectRunbooks ==
    RunbookContexts \cup
    {[results |-> 1, maxScore |-> m, content |-> c] :
        m \in {40, 100}, c \in {"results", "don't restart the primary"}}

InitDetect ==
    /\ store = NoFields
    /\ approvals = NoFields
    /\ env = defaultEnv
    /\ last = NewTrace("init", 0)
    /\ \E option \in ThresholdOptions, h \in DetectHypotheses,
          i \in DetectIncidents, r \in DetectRunbooks :
          ev = [done |-> FALSE, option |-> option, hypothesis |-> h,
                incidentContext |-> i, runbookContext |-> r,
                result |-> [edgeCases |-> {}, requiresHuman |-> FALSE]]

Detect ==
    /\ ~ev.done
    /\ ev' = [ev EXCEPT
                !.done = TRUE,
                !.result = detectWith(confidenceThresholdOf(ev.option),
                               ev.hypothesis, ev.incidentContext,
                               ev.runbookContext)]
    /\ UNCHANGED <<store, approvals, env, last>>

NextDetect == Detect

SpecDetect == InitDetect /\ [][NextDetect]_vars

----------------------------------------------------------------------------
(* SpecPhase: one call of a phase handler or of the approval gateway, for   *)
(* an incident id that exists or not, on a store that one webhook or debug  *)
(* delivery has left; the pending approval may reach its TTL before the     *)
(* call                                                                     *)

\* results along processHypothesis, with the failures the redaction and
\* search clients log and answer with a fallback value
ContextOutcomes(url, hypothesis) ==
    LET Answered == {e \in PipelineOutcomes(url, hypothesis) : e.redact = "ok"}
    IN      PipelineOutcomes(url, hypothesis)
       \cup {[e EXCEPT !.redact = "error"] : e \in Answered}
       \cup {[e EXCEPT !.search = "error"] : e \in {x \in Answered : x.hits = 0}}

\* results along verifyRemediation called on its own
VerifyOutcomes(url) ==
    {[NoOutcome EXCEPT !.health = h, !.note = n] :
        h \in IF url THEN {"success", "failure", "throw"} ELSE {"na"},
        n \in {"ok", "throw"}}

\* the stores left by one delivery to an empty store: nothing delivered, a
\* triggered incident, a debug trigger with each course its pipeline can take
PhaseStarts ==
    LET empty == World(NoFields, NoFields, NewTrace("init", 0))
    IN      {empty}
       \cup {handleIncidentTriggered(empty, id, urgency) :
                 id \in Incidents, urgency \in {"high", "low"}}
       \cup UNION {
               {debugTrigger(empty, id, hypothesis, o) :
                   o \in PipelineOutcomes(FALSE,
                           [hypothesis EXCEPT
                              !.confidence = IF OrZero(@) = 0 THEN 85 ELSE @])} :
               id \in Incidents, hypothesis \in HypothesisInputs}

InitPhase ==
    /\ \E w \in PhaseStarts :
           /\ store = w.inc
           /\ approvals = w.app
    /\ env = defaultEnv
    /\ last = NewTrace("init", 0)
    /\ ev = [done |-> TRUE]

\* the approval:<id> key reaches its one hour TTL before the call
PhaseExpireApproval(id) ==
    /\ last.op = "init"
    /\ hasPendingApproval(approvals, id)
    /\ approvals' = clearPendingApproval(approvals, id)
    /\ last' = NewTrace("expire", id)
    /\ UNCHANGED <<store, env, ev>>

CallProcessHypothesis(id) ==
    /\ last.op \in {"init", "expire"}
    /\ \E parsedHypothesis \in HypothesisInputs :
       \E o \in ContextOutcomes(healthUrlStored(store, id), parsedHypothesis) :
           Finish(processHypothesis(Start("processHypothesis", id), id,
                                    parsedHypothesis, o))

CallExecuteRemediation(id) ==
    /\ last.op \in {"init", "expire"}
    /\ \E o \in ExecOutcomes(healthUrlStored(store, id)) :
           Finish(executeRemediation(Start("executeRemediation", id), id, o))

CallExecuteRemediationEnhanced(id) ==
    /\ last.op \in {"init", "expire"}
    /\ \E o \in ExecOutcomes(TRUE) :
           Finish(executeRemediationEnhanced(
                      Start("executeRemediationEnhanced", id), id, o))

CallVerifyRemediation(id) ==
    /\ last.op \in {"init", "expire"}
    /\ \E o \in VerifyOutcomes(healthUrlStored(store, id)) :
           Finish(verifyRemediation(Start("verifyRemediation", id), id, o))

CallHandleApproval(id) ==
    /\ last.op \in {"init", "expire"}
    /\ \E approved \in BOOLEAN :
       \E o \in IF approved THEN ExecOutcomes(healthUrlStored(store, id))
                 ELSE {NoOutcome} :
           Finish(handleApproval(Start("approval", id), id, approved, o))

NextPhase ==
    \E id \in Incidents \cup {NumIncidents + 1} :
        \/ PhaseExpireApproval(id)
        \/ CallProcessHypothesis(id)
        \/ CallExecuteRemediation(id)
        \/ CallExecuteRemediationEnhanced(id)
        \/ CallVerifyRemediation(id)
        \/ CallHandleApproval(id)

SpecPhase == InitPhase /\ [][NextPhase]_vars

----------------------------------------------------------------------------
(* SpecStore: the calls of the RedisStateManager API, each applied to two   *)
(* managers side by side: one on the Redis client (store holds the          *)
(* incident:<id> keys, approvals the approval:<id> keys) and one on the     *)
(* in-process Map of the fallback (ev.mem, one Map for both kinds of key).  *)
(* No key reaches its TTL.                                                  *)

\* getIncidentState: the records found, none for an absent key
getIncidentState(inc, incidentId) ==
    IF hasIncident(inc, incidentId) THEN {inc[incidentId]} ELSE {}

\* getActiveIncidents on the Redis client: every incident:* key whose record
\* is not RESOLVED (the order of KEYS is not specified: the result is
\* taken as the collection of its records)
getActiveIncidents(inc) ==
    {inc[k] : k \in {j \in DOMAIN inc : inc[j].current_stage # RESOLVED}}

deleteIncidentState(inc, incidentId) ==
    [k \in (DOMAIN inc) \ {incidentId} |-> inc[k]]

getPendingApproval(app, incidentId) ==
    IF hasPendingApproval(app, incidentId) THEN {app[incidentId]} ELSE {}

\* _getIncidentKey and the approval key: `incident:${id}`, `approval:${id}`
IncidentKey(incidentId) == <<"incident", incidentId>>
ApprovalKey(incidentId) == <<"approval", incidentId>>

\* memoryStore.set(key, data)
MemorySet(mem, key, data) ==
    [k \in (DOMAIN mem) \cup {key} |-> IF k = key THEN data ELSE mem[k]]

\* memoryStore.delete(key)
MemoryDelete(mem, key) == [k \in (DOMAIN mem) \ {key} |-> mem[k]]

\* the useMemory branches of the same methods
setIncidentStateMemory(mem, incidentId, state) ==
    MemorySet(mem, IncidentKey(incidentId), IncidentData(incidentId, state))

getIncidentStateMemory(mem, incidentId) ==
    IF IncidentKey(incidentId) \in DOMAIN mem
    THEN {mem[IncidentKey(incidentId)]} ELSE {}

updateIncidentStateMemory(mem, incidentId, updates) ==
    IF getIncidentStateMemory(mem, incidentId) = {}
    THEN [ok |-> FALSE, mem |-> mem]
    ELSE [ok |-> TRUE,
          mem |-> setIncidentStateMemory(mem, incidentId,
                      Spread(mem[IncidentKey(incidentId)], updates))]

transitionStageMemory(mem, incidentId, newStage, additionalData) ==
    IF getIncidentStateMemory(mem, incidentId) = {}
    THEN [ok |-> FALSE, mem |-> mem]
    ELSE LET current == mem[IncidentKey(incidentId)]
             stageHistory ==
                 Append(IF "stage_history" \in DOMAIN current
                        THEN current.stage_history ELSE <<>>,
                        [from |-> current.current_stage, to |-> newStage,
                         timestamp |-> TS])
         IN [ok |-> TRUE,
             mem |-> setIncidentStateMemory(mem, incidentId,
                        Spread(Spread(current, additionalData),
                               [current_stage |-> newStage,
                                stage_history |-> stageHistory]))]

\* the loop over memoryStore.entries() with every key taken as an incident
\* key: a record without current_stage is not RESOLVED
getActiveIncidentsMemoryAllKeys(mem) ==
    {mem[k] : k \in {j \in DOMAIN mem :
                        Field(mem[j], "current_stage") # RESOLVED}}

\* the loop over memoryStore.entries(): key.startsWith('incident:')
getActiveIncidentsMemory(mem) ==
    {mem[k] : k \in {j \in DOMAIN mem :
                        /\ j[1] = "incident"
                        /\ mem[j].current_stage # RESOLVED}}

deleteIncidentStateMemory(mem, incidentId) ==
    MemoryDelete(mem, IncidentKey(incidentId))

setPendingApprovalMemory(mem, incidentId, approvalData) ==
    MemorySet(mem, ApprovalKey(incidentId),
              Spread(approvalData, [requested_at |-> TS]))

getPendingApprovalMemory(mem, incidentId) ==
    IF ApprovalKey(incidentId) \in DOMAIN mem
    THEN {mem[ApprovalKey(incidentId)]} ELSE {}

clearPendingApprovalMemory(mem, incidentId) ==
    MemoryDelete(mem, ApprovalKey(incidentId))

\* states handed to setIncidentState by a creating caller
StoreStates ==
    {[title |-> "title", urgency |-> "high"],
     [current_stage |-> INVESTIGATING, title |-> "title", urgency |-> "high"]}

\* partial states handed to updateIncidentState: fields the orchestrator
\* updates (part_011:109-116, 215-219, 293-297), and a score of 0
StoreUpdates ==
    {[hypothesis |-> "hypothesis", hypothesis_confidence |-> 90],
     [hypothesis_confidence |-> 0],
     [remediation_code |-> "code", remediation_risk |-> "LOW"],
     [pending_approval |-> "true", approval_requested_at |-> TS],
     [execution_exit_code |-> 0]}

\* stages and additional data handed to transitionStage
StoreStages == {INVESTIGATING, EXECUTING, RESOLVED, ESCALATED}

StoreAdditionalData ==
    {NoFields, [error |-> "message", error_stage |-> "execution"]}

StoreApprovalData ==
    {[remediation_code |-> "code", hypothesis |-> "hypothesis", risk |-> "LOW"]}

\* what a call answered: ok = FALSE is a thrown error, value the records
\* returned
Answer(ok, value) == [ok |-> ok, value |-> value]

\* the call that was made (its arguments), the Map of the fallback manager
\* and what each manager answered
StoreEvent(mem, arg, stage, res, memRes) ==
    [mem |-> mem, arg |-> arg, stage |-> stage, res |-> res, memRes |-> memRes]

InitStore ==
    /\ store = NoFields
    /\ approvals = NoFields
    /\ env = defaultEnv
    /\ last = NewTrace("init", 0)
    /\ ev = StoreEvent(NoFields, NoFields, NULL, Answer(TRUE, {}), Answer(TRUE, {}))

CallSetIncidentState(id) ==
    /\ id \in Incidents
    /\ \E state \in StoreStates :
           /\ store' = setIncidentState(store, id, state)
           /\ ev' = StoreEvent(setIncidentStateMemory(ev.mem, id, state),
                               state, NULL, Answer(TRUE, {}), Answer(TRUE, {}))
    /\ last' = NewTrace("setIncidentState", id)
    /\ UNCHANGED <<approvals, env>>

CallGetIncidentState(id) ==
    /\ id \in Incidents
    /\ ev' = StoreEvent(ev.mem, NoFields, NULL,
                        Answer(TRUE, getIncidentState(store, id)),
                        Answer(TRUE, getIncidentStateMemory(ev.mem, id)))
    /\ last' = NewTrace("getIncidentState", id)
    /\ UNCHANGED <<store, approvals, env>>

CallUpdateIncidentState(id) ==
    /\ id \in Incidents
    /\ \E updates \in StoreUpdates :
           LET r == updateIncidentState(store, id, updates)
               m == updateIncidentStateMemory(ev.mem, id, updates)
           IN  /\ store' = r.inc
               /\ ev' = StoreEvent(m.mem, updates, NULL,
                                   Answer(r.ok, {}), Answer(m.ok, {}))
    /\ last' = NewTrace("updateIncidentState", id)
    /\ UNCHANGED <<approvals, env>>

CallTransitionStage(id) ==
    /\ id \in Incidents
    /\ \E newStage \in StoreStages, additionalData \in StoreAdditionalData :
           LET r == transitionStage(store, id, newStage, additionalData)
               m == transitionStageMemory(ev.mem, id, newStage, additionalData)
           IN  /\ store' = r.inc
               /\ ev' = StoreEvent(m.mem, additionalData, newStage,
                                   Answer(r.ok, {}), Answer(m.ok, {}))
    /\ last' = NewTrace("transitionStage", id)
    /\ UNCHANGED <<approvals, env>>

CallGetActiveIncidents ==
    /\ ev' = StoreEvent(ev.mem, NoFields, NULL,
                        Answer(TRUE, getActiveIncidents(store)),
                        Answer(TRUE, getActiveIncidentsMemory(ev.mem)))
    /\ last' = NewTrace("getActiveIncidents", 0)
    /\ UNCHANGED <<store, approvals, env>>

CallDeleteIncidentState(id) ==
    /\ id \in Incidents
    /\ store' = deleteIncidentState(store, id)
    /\ ev' = StoreEvent(deleteIncidentStateMemory(ev.mem, id), NoFields, NULL,
                        Answer(TRUE, {}), Answer(TRUE, {}))
    /\ last' = NewTrace("deleteIncidentState", id)
    /\ UNCHANGED <<approvals, env>>

CallSetPendingApproval(id) ==
    /\ id \in Incidents
    /\ \E approvalData \in StoreApprovalData :
           /\ approvals' = setPendingApproval(approvals, id, approvalData)
           /\ ev' = StoreEvent(setPendingApprovalMemory(ev.mem, id, approvalData),
                               approvalData, NULL,
                               Answer(TRUE, {}), Answer(TRUE, {}))
    /\ last' = NewTrace("setPendingApproval", id)
    /\ UNCHANGED <<store, env>>

CallGetPendingApproval(id) ==
    /\ id \in Incidents
    /\ ev' = StoreEvent(ev.mem, NoFields, NULL,
                        Answer(TRUE, getPendingApproval(approvals, id)),
                        Answer(TRUE, getPendingApprovalMemory(ev.mem, id)))
    /\ last' = NewTrace("getPendingApproval", id)
    /\ UNCHANGED <<store, approvals, env>>

CallClearPendingApproval(id) ==
    /\ id \in Incidents
    /\ approvals' = clearPendingApproval(approvals, id)
    /\ ev' = StoreEvent(clearPendingApprovalMemory(ev.mem, id), NoFields, NULL,
                        Answer(TRUE, {}), Answer(TRUE, {}))
    /\ last' = NewTrace("clearPendingApproval", id)
    /\ UNCHANGED <<store, env>>

NextStore ==
    \/ \E id \in Incidents :
           \/ CallSetIncidentState(id)
           \/ CallGetIncidentState(id)
           \/ CallUpdateIncidentState(id)
           \/ CallTransitionStage(id)
           \/ CallDeleteIncidentState(id)
           \/ CallSetPendingApproval(id)
           \/ CallGetPendingApproval(id)
           \/ CallClearPendingApproval(id)
    \/ CallGetActiveIncidents

SpecStore == InitStore /\ [][NextStore]_vars

----------------------------------------------------------------------------
(* SpecTrigger: two deliveries of incident.triggered running concurrently.  *)
(* handleIncidentTriggered gives up control at each await: after the read   *)
(* of the record, after setIncidentState, and inside transitionStage        *)
(* between its read and its write.  incident.resolved and                   *)
(* incident.escalated deliveries run in between.                            *)

Deliveries == {"first", "second"}

\* the position of each delivery in handleIncidentTriggered, the incident
\* and urgency of its event, the record its transitionStage call read, and
\* the delivery that made the last step
TriggerEvent(pc, id, urgency, current, who) ==
    [pc |-> pc, id |-> id, urgency |-> urgency, current |-> current, who |-> who]

InitTrigger ==
    /\ store = NoFields
    /\ approvals = NoFields
    /\ env = defaultEnv
    /\ last = NewTrace("init", 0)
    /\ ev = TriggerEvent([d \in Deliveries |-> "idle"],
                         [d \in Deliveries |-> 1],
                         [d \in Deliveries |-> "high"],
                         [d \in Deliveries |-> NoFields], "none")

\* const existing = await getIncidentState(incidentId); if (existing) return
TriggerRead(d) ==
    /\ d \in Deliveries
    /\ ev.pc[d] \in {"idle", "done"}
    /\ \E id \in Incidents, urgency \in {"high", "low"} :
           ev' = TriggerEvent(
                     [ev.pc EXCEPT ![d] = IF hasIncident(store, id)
                                          THEN "done" ELSE "create"],
                     [ev.id EXCEPT ![d] = id],
                     [ev.urgency EXCEPT ![d] = urgency],
                     [ev.current EXCEPT ![d] = NoFields], d)
    /\ last' = NewTrace("triggered", ev'.id[d])
    /\ UNCHANGED <<store, approvals, env>>

\* await setIncidentState(incidentId, { current_stage: TRIGGERED, ... })
TriggerCreate(d) ==
    /\ d \in Deliveries
    /\ ev.pc[d] = "create"
    /\ store' = setIncidentState(store, ev.id[d],
                    [current_stage |-> TRIGGERED,
                     incident_id |-> ev.id[d],
                     title |-> "title",
                     urgency |-> ev.urgency[d],
                     service_id |-> "service",
                     service_name |-> "service name",
                     alert_payload |-> "payload",
                     triggered_at |-> TS])
    /\ ev' = [ev EXCEPT !.pc[d] = "transition", !.who = d]
    /\ last' = [NewTrace("triggered", ev.id[d]) EXCEPT !.created = TRIGGERED]
    /\ UNCHANGED <<approvals, env>>

\* transitionStage: const current = await getIncidentState(incidentId)
TriggerTransitionRead(d) ==
    /\ d \in Deliveries
    /\ ev.pc[d] = "transition"
    /\ IF hasIncident(store, ev.id[d])
       THEN /\ ev' = [ev EXCEPT !.pc[d] = "write",
                                !.current[d] = store[ev.id[d]],
                                !.who = d]
            /\ last' = NewTrace("triggered", ev.id[d])
       ELSE /\ ev' = [ev EXCEPT !.pc[d] = "done", !.who = d]
            /\ last' = [NewTrace("triggered", ev.id[d]) EXCEPT !.threw = TRUE]
    /\ UNCHANGED <<store, approvals, env>>

\* transitionStage: setIncidentState(incidentId, { ...current,
\* current_stage: newStage, stage_history })
TriggerTransitionWrite(d) ==
    /\ d \in Deliveries
    /\ ev.pc[d] = "write"
    /\ store' = setIncidentState(store, ev.id[d],
                    Spread(ev.current[d],
                           [current_stage |-> INVESTIGATING,
                            stage_history |->
                                <<[from |-> ev.current[d].current_stage,
                                   to |-> INVESTIGATING, timestamp |-> TS]>>]))
    /\ ev' = [ev EXCEPT !.pc[d] = "done", !.current[d] = NoFields, !.who = d]
    /\ last' = [NewTrace("triggered", ev.id[d]) EXCEPT
                    !.trans = <<INVESTIGATING>>]
    /\ UNCHANGED <<approvals, env>>

NextTrigger ==
    \/ \E d \in Deliveries :
           \/ TriggerRead(d)
           \/ TriggerCreate(d)
           \/ TriggerTransitionRead(d)
           \/ TriggerTransitionWrite(d)
    \/ \E id \in Incidents :
           \/ IncidentResolved(id)
           \/ IncidentEscalated(id)

SpecTrigger == InitTrigger /\ [][NextTrigger]_vars

----------------------------------------------------------------------------
(* SpecRace: two tasks that each run updateIncidentState or transitionStage *)
(* on an incident.  Both methods read the record, give up control at the    *)
(* await, and then write the copy they read merged with their changes.      *)

Tasks == {"first", "second"}

\* a write that reads the record again at the moment it writes
writeMergedFresh(inc, incidentId, current, updates) ==
    setIncidentState(inc, incidentId, Spread(inc[incidentId], updates))

\* return this.setIncidentState(incidentId, { ...current, ...updates })
writeMerged(inc, incidentId, current, updates) ==
    setIncidentState(inc, incidentId, Spread(current, updates))

\* the changes a call writes over its copy: the updates of
\* updateIncidentState, or the additional data and the stage of
\* transitionStage (its stage_history is not among the fields written)
RaceUpdate(updates) == [op |-> "updateIncidentState", updates |-> updates]

RaceTransition(newStage, additionalData) ==
    [op |-> "transitionStage",
     updates |-> Spread(additionalData, [current_stage |-> newStage])]

\* calls the webhook handlers and the orchestrator make
RaceCalls ==
    {RaceUpdate([acknowledged_at |-> TS, acknowledged_by |-> "assignee"]),
     RaceUpdate([hypothesis |-> "hypothesis", hypothesis_confidence |-> 90]),
     RaceTransition(HYPOTHESIS_RECEIVED, NoFields),
     RaceTransition(RESOLVED, [resolved_at |-> TS,
                               resolution_source |-> "pagerduty_event"]),
     RaceTransition(ESCALATED, [escalated_at |-> TS,
                                escalation_policy |-> "policy"])}

\* fields of the stored record other than its two timestamps
RecordFields(rec) == (DOMAIN rec) \ {"created_at", "updated_at"}

\* the position of each task, its incident, the call it runs, the copy of
\* the record it read, the task that made the last step, and whether that
\* step wrote the task's copy over a field another task had changed since
RaceEvent(pc, id, call, current, who, lost) ==
    [pc |-> pc, id |-> id, call |-> call, current |-> current, who |-> who, lost |-> lost]

InitRace ==
    /\ store = [id \in Incidents |->
                   handleIncidentTriggered(
                       World(NoFields, NoFields, NewTrace("init", 0)),
                       id, "high").inc[id]]
    /\ approvals = NoFields
    /\ env = defaultEnv
    /\ last = NewTrace("init", 0)
    /\ ev = RaceEvent([t \in Tasks |-> "idle"], [t \in Tasks |-> 1],
                      [t \in Tasks |-> RaceUpdate(NoFields)],
                      [t \in Tasks |-> NoFields], "none", FALSE)

\* const current = await this.getIncidentState(incidentId)
RaceRead(t) ==
    /\ t \in Tasks
    /\ ev.pc[t] = "idle"
    /\ \E id \in Incidents, call \in RaceCalls :
           /\ ev' = RaceEvent([ev.pc EXCEPT ![t] = "write"],
                              [ev.id EXCEPT ![t] = id],
                              [ev.call EXCEPT ![t] = call],
                              [ev.current EXCEPT ![t] = store[id]], t, FALSE)
           /\ last' = NewTrace(call.op, id)
    /\ UNCHANGED <<store, approvals, env>>

\* return this.setIncidentState(incidentId, { ...current, ...updates })
RaceWrite(t) ==
    /\ t \in Tasks
    /\ ev.pc[t] = "write"
    /\ store' = writeMerged(store, ev.id[t], ev.current[t], ev.call[t].updates)
    /\ ev' = RaceEvent([ev.pc EXCEPT ![t] = "idle"], ev.id, ev.call,
                       [ev.current EXCEPT ![t] = NoFields], t,
                       \E k \in RecordFields(store[ev.id[t]]) \ DOMAIN ev.call[t].updates :
                           /\ store[ev.id[t]][k] # ev.current[t][k]
                           /\ store'[ev.id[t]][k] = ev.current[t][k])
    /\ last' = [NewTrace(ev.call[t].op, ev.id[t]) EXCEPT
                    !.trans = IF ev.call[t].op = "transitionStage"
                              THEN <<ev.call[t].updates.current_stage>> ELSE <<>>]
    /\ UNCHANGED <<approvals, env>>

NextRace ==
    \E t \in Tasks :
        \/ RaceRead(t)
        \/ RaceWrite(t)

SpecRace == InitRace /\ [][NextRace]_vars

----------------------------------------------------------------------------
(* SpecDecision: two human decisions for an incident that waits for         *)
(* approval, delivered concurrently.  handleApproval gives up control       *)
(* after getPendingApproval and after clearPendingApproval; what follows    *)
(* the clear (the update and executeRemediation, or the transition to       *)
(* ESCALATED) is run here without further interleaving.                     *)

Deciders == {"first", "second"}

\* the position of each decision in handleApproval, its incident, whether
\* it approves, what it did, and the decision that made the last step
DecisionEvent(pc, id, approved, acted, who) ==
    [pc |-> pc, id |-> id, approved |-> approved, acted |-> acted, who |-> who]

\* stores in which an incident waits for approval
InitDecision ==
    /\ \E w \in PhaseStarts :
           /\ \E id \in Incidents : hasPendingApproval(w.app, id)
           /\ store = w.inc
           /\ approvals = w.app
    /\ env = defaultEnv
    /\ last = NewTrace("init", 0)
    /\ ev = DecisionEvent([d \in Deciders |-> "idle"], [d \in Deciders |-> 1],
                          [d \in Deciders |-> FALSE],
                          [d \in Deciders |-> "none"], "none")

\* const approval = await getPendingApproval(incidentId); if (!approval) return
DecisionRead(d) ==
    /\ d \in Deciders
    /\ ev.pc[d] = "idle"
    /\ \E id \in Incidents, approved \in BOOLEAN :
           /\ ev' = [ev EXCEPT !.pc[d] = IF hasPendingApproval(approvals, id)
                                         THEN "clear" ELSE "done",
                               !.id[d] = id,
                               !.approved[d] = approved,
                               !.who = d]
           /\ last' = [NewTrace("approval", id) EXCEPT
                          !.decision = IF hasPendingApproval(approvals, id)
                                       THEN "none" ELSE "missing"]
    /\ UNCHANGED <<store, approvals, env>>

\* await clearPendingApproval(incidentId)
DecisionClear(d) ==
    /\ d \in Deciders
    /\ ev.pc[d] = "clear"
    /\ approvals' = clearPendingApproval(approvals, ev.id[d])
    /\ ev' = [ev EXCEPT !.pc[d] = "act", !.who = d]
    /\ last' = NewTrace("approval", ev.id[d])
    /\ UNCHANGED <<store, env>>

\* handleApproval from the branch on approved on
handleApprovalDecided(w0, id, approved, o) ==
    Bind([w0 EXCEPT !.t.decision = IF approved THEN "approve" ELSE "reject"],
         LAMBDA w1 :
      IF approved
      THEN Then(Update(w1, id,
                  [human_approved |-> "true",
                   approved_by |-> "approver",
                   approved_at |-> TS]), LAMBDA w2 :
             executeRemediation(w2, id, o))
      ELSE Transition(w1, id, ESCALATED,
                      [human_rejected |-> "true",
                       rejected_by |-> "approver",
                       rejected_at |-> TS]))

\* the rest of handleApproval after the clear
DecisionAct(d) ==
    /\ d \in Deciders
    /\ ev.pc[d] = "act"
    /\ \E o \in ExecOutcomes(healthUrlStored(store, ev.id[d])) :
           \E w \in {handleApprovalDecided(Start("approval", ev.id[d]),
                                           ev.id[d], ev.approved[d], o)} :
               /\ store' = w.inc
               /\ approvals' = w.app
               /\ last' = [w.t EXCEPT !.threw = w.exc]
    /\ ev' = [ev EXCEPT !.pc[d] = "done", !.who = d,
                        !.acted[d] = IF ev.approved[d] THEN "executed"
                                     ELSE "rejected"]
    /\ UNCHANGED env

NextDecision ==
    \E d \in Deciders :
        \/ DecisionRead(d)
        \/ DecisionClear(d)
        \/ DecisionAct(d)

SpecDecision == InitDecision /\ [][NextDecision]_vars

----------------------------------------------------------------------------
(* SpecConnect: RedisStateManager.connect, the events of its Redis client,  *)
(* and setIncidentState / getIncidentState calls once connect has returned. *)
(* store holds the keys of the Redis server, ev.mem the in-process Map.     *)

\* retryStrategy: if (times > 3) return null
maxRetryTimes == 3

\* status: where connect() is (new / waiting / ready); useMemory: the flag
\* of the manager; clientOpen: the client still attempts to connect;
\* connected: its 'connect' event has fired; errors: failed attempts;
\* fellBack: connect() took the catch branch; written: the incidents
\* written since then; mem: memoryStore; res: what the last call answered
ConnectEvent(status, useMemory, clientOpen, connected, errors, fellBack, written, mem, res) ==
    [status |-> status, useMemory |-> useMemory, clientOpen |-> clientOpen,
     connected |-> connected, errors |-> errors, fellBack |-> fellBack,
     written |-> written, mem |-> mem, res |-> res]

InitConnect ==
    /\ store = NoFields
    /\ approvals = NoFields
    /\ env = defaultEnv
    /\ last = NewTrace("init", 0)
    /\ ev = ConnectEvent("new", FALSE, FALSE, FALSE, 0, FALSE, {}, NoFields,
                         Answer(TRUE, {}))

\* connect(): this.client = new Redis(...), then wait for 'connect', 'error'
\* or the 2 s timer
ConnectCall ==
    /\ ev.status = "new"
    /\ ev' = [ev EXCEPT !.status = "waiting", !.clientOpen = TRUE]
    /\ last' = NewTrace("connect", 0)
    /\ UNCHANGED <<store, approvals, env>>

\* the client's 'connect' event: the handler registered with on() sets
\* useMemory = false, whenever the event fires; a waiting connect() returns
ClientConnect ==
    /\ ev.clientOpen
    /\ ~ev.connected
    /\ ev' = [ev EXCEPT !.connected = TRUE,
                        !.useMemory = FALSE,
                        !.status = IF @ = "waiting" THEN "ready" ELSE @]
    /\ last' = NewTrace("client_connect", 0)
    /\ UNCHANGED <<store, approvals, env>>

\* the client's 'error' event: a waiting connect() takes the catch branch
\* (useMemory = true); the client retries until retryStrategy answers null
ClientError ==
    /\ ev.clientOpen
    /\ ~ev.connected
    /\ ev' = [ev EXCEPT !.errors = @ + 1,
                        !.clientOpen = (ev.errors + 1 <= maxRetryTimes),
                        !.useMemory = IF ev.status = "waiting" THEN TRUE ELSE @,
                        !.fellBack = IF ev.status = "waiting" THEN TRUE ELSE @,
                        !.status = IF @ = "waiting" THEN "ready" ELSE @]
    /\ last' = NewTrace("client_error", 0)
    /\ UNCHANGED <<store, approvals, env>>

\* setTimeout(() => reject(new Error('Timeout')), 2000)
ConnectTimeout ==
    /\ ev.status = "waiting"
    /\ ev' = [ev EXCEPT !.useMemory = TRUE, !.fellBack = TRUE, !.status = "ready"]
    /\ last' = NewTrace("connect_timeout", 0)
    /\ UNCHANGED <<store, approvals, env>>

\* setIncidentState after connect() returned: the branch on this.useMemory
ReadySetIncidentState(id) ==
    /\ id \in Incidents
    /\ ev.status = "ready"
    /\ \E state \in StoreStates :
           IF ev.useMemory
           THEN /\ ev' = [ev EXCEPT
                            !.mem = setIncidentStateMemory(@, id, state),
                            !.written = IF ev.fellBack THEN @ \cup {id} ELSE @,
                            !.res = Answer(TRUE, {})]
                /\ store' = store
           ELSE /\ store' = setIncidentState(store, id, state)
                /\ ev' = [ev EXCEPT
                            !.written = IF ev.fellBack THEN @ \cup {id} ELSE @,
                            !.res = Answer(TRUE, {})]
    /\ last' = NewTrace("setIncidentState", id)
    /\ UNCHANGED <<approvals, env>>

\* getIncidentState after connect() returned: the branch on this.useMemory
ReadyGetIncidentState(id) ==
    /\ id \in Incidents
    /\ ev.status = "ready"
    /\ ev' = [ev EXCEPT !.res = Answer(TRUE,
                                  IF ev.useMemory
                                  THEN getIncidentStateMemory(ev.mem, id)
                                  ELSE getIncidentState(store, id))]
    /\ last' = NewTrace("getIncidentState", id)
    /\ UNCHANGED <<store, approvals, env>>

NextConnect ==
    \/ ConnectCall
    \/ ClientConnect
    \/ ClientError
    \/ ConnectTimeout
    \/ \E id \in Incidents :
           \/ ReadySetIncidentState(id)
           \/ ReadyGetIncidentState(id)

SpecConnect == InitConnect /\ [][NextConnect]_vars

----------------------------------------------------------------------------
(* SpecLearn: IncidentLearner and the scheduler of createLearningScheduler. *)
(* Time is counted in hours. ev.records is the learning:* keyspace of       *)
(* Redis: a key is present until its TTL has run out.                       *)

\* options.stabilityPeriodMs || 24 * 60 * 60 * 1000
stabilityPeriodHours == 24

\* ttl = Math.ceil(this.stabilityPeriodMs / 1000) + 3600
ttlBufferHours == 1

\* setex(key, 86400, ...) of a record marked ineffective
ineffectiveTtlHours == 24

\* options.intervalMs || 60 * 60 * 1000
intervalHours == 1

MaxClock == 27

\* the latest hour at which an incident is resolved
MaxScheduleAt == 1

LearnServices == {"api", "db"}

LearnFailureTypes == {"oom", "disk"}

\* the snapshots of resolved incidents: service and the failureTypes of
\* cleric_hypothesis
LearnSnapshots == [service : LearnServices, failureTypes : {{"oom"}}]

\* scheduleForLearning: the record stored under learning:<incident_id>
scheduleForLearning(records, now, id, snapshot) ==
    [k \in (DOMAIN records) \cup {id} |->
        IF k = id
        THEN [status |-> "pending",
              scheduled_at |-> now,
              ingest_after |-> now + stabilityPeriodHours,
              expires |-> now + stabilityPeriodHours + ttlBufferHours,
              incident_snapshot |-> snapshot]
        ELSE records[k]]

\* checkForRecurrence: the records with the same service whose hypothesis
\* includes the failure type
recurrenceMatches(records, service, failureType) ==
    {id \in DOMAIN records :
        /\ records[id].incident_snapshot.service = service
        /\ failureType \in records[id].incident_snapshot.failureTypes}

\* checkForRecurrence: the matching record is marked and kept for 24 h more
markIneffective(records, now, id) ==
    [records EXCEPT ![id].status = "ineffective",
                    ![id].expires = now + ineffectiveTtlHours]

\* processPendingLearning: the records a run hands to ingestIncident
readyToIngest(records, now) ==
    {id \in DOMAIN records :
        /\ records[id].status # "ineffective"
        /\ ~(now < records[id].ingest_after)}

\* processPendingLearning: a successfully ingested record is deleted, a
\* record whose ingestion threw is left as it is
processPendingLearning(records, now, failing) ==
    [id \in DOMAIN records \ (readyToIngest(records, now) \ failing) |-> records[id]]

\* the keys whose TTL has not run out
liveRecords(records, now) ==
    [id \in {i \in DOMAIN records : records[i].expires > now} |-> records[id]]

\* now: the clock; nextRun: when the interval timer fires next; ingested:
\* how often the current record of an incident was ingested; everMarked:
\* the incidents whose current record was marked ineffective; ingestedNow,
\* failedNow, seen: the records the last run ingested, the incidents it
\* failed on and the keys it read; retry:
\* the records the run before it had failed on
LearnEvent(now, nextRun, records, ingested, everMarked, ingestedNow, failedNow, seen, retry) ==
    [now |-> now, nextRun |-> nextRun, records |-> records,
     ingested |-> ingested, everMarked |-> everMarked,
     ingestedNow |-> ingestedNow, failedNow |-> failedNow,
     seen |-> seen, retry |-> retry]

InitLearn ==
    /\ store = NoFields
    /\ approvals = NoFields
    /\ env = defaultEnv
    /\ last = NewTrace("init", 0)
    /\ ev = LearnEvent(0, 0, NoFields, [i \in Incidents |-> 0], {}, {}, {}, {}, {})

\* handleResolutionEnhanced: scheduleForLearning(fullState)
ScheduleForLearning(id) ==
    /\ id \in Incidents
    /\ ev.now <= MaxScheduleAt
    /\ \E snapshot \in LearnSnapshots :
           ev' = [ev EXCEPT
                    !.records = scheduleForLearning(@, ev.now, id, snapshot),
                    !.ingested = [@ EXCEPT ![id] = 0],
                    !.everMarked = @ \ {id},
                    !.failedNow = @ \ {id}]
    /\ last' = NewTrace("scheduleForLearning", id)
    /\ UNCHANGED <<store, approvals, env>>

\* processHypothesis: checkForRecurrence(service, failureType); KEYS answers
\* in no particular order, the first matching key is marked
CheckForRecurrence ==
    /\ \E service \in LearnServices, failureType \in LearnFailureTypes :
           LET matches == recurrenceMatches(ev.records, service, failureType)
           IN  IF matches = {}
               THEN /\ ev' = ev
                    /\ last' = NewTrace("checkForRecurrence", 0)
               ELSE \E id \in matches :
                        /\ ev' = [ev EXCEPT
                                    !.records = markIneffective(@, ev.now, id),
                                    !.everMarked = @ \cup {id}]
                        /\ last' = NewTrace("checkForRecurrence", id)
    /\ UNCHANGED <<store, approvals, env>>

\* the interval timer of createLearningScheduler fires: one run of
\* processPendingLearning, ingestIncident failing for the records in failing
SchedulerRun ==
    /\ ev.now = ev.nextRun
    /\ \E failing \in SUBSET DOMAIN ev.records :
           LET ready == readyToIngest(ev.records, ev.now)
               done == ready \ failing
           IN  ev' = [ev EXCEPT
                        !.records = processPendingLearning(@, ev.now, failing),
                        !.nextRun = ev.now + intervalHours,
                        !.ingested = [i \in Incidents |->
                                         IF i \in done THEN @[i] + 1 ELSE @[i]],
                        !.ingestedNow = {[id |-> i,
                                          ingest_after |-> ev.records[i].ingest_after] :
                                            i \in done},
                        !.failedNow = ready \cap failing,
                        !.seen = DOMAIN ev.records,
                        !.retry = ev.failedNow]
    /\ last' = NewTrace("processPendingLearning", 0)
    /\ UNCHANGED <<store, approvals, env>>

\* an hour passes: the keys whose TTL has run out are gone
Tick ==
    /\ ev.now < ev.nextRun
    /\ ev.now < MaxClock
    /\ ev' = [ev EXCEPT !.now = @ + 1,
                        !.records = liveRecords(@, ev.now + 1)]
    /\ last' = NewTrace("tick", 0)
    /\ UNCHANGED <<store, approvals, env>>

NextLearn ==
    \/ \E id \in Incidents : ScheduleForLearning(id)
    \/ CheckForRecurrence
    \/ SchedulerRun
    \/ Tick

SpecLearn == InitLearn /\ [][NextLearn]_vars

----------------------------------------------------------------------------
(* Properties *)

\* C1: RESOLVED and ESCALATED are terminal: once an incident's current_stage
\* is RESOLVED or ESCALATED no handler, approval decision or webhook event
\* changes it, neither between handlers nor between the steps of one handler.
C1_TerminalStagesAreFinal ==
    [][/\ \A id \in Incidents :
             (hasIncident(store, id) /\ store[id].current_stage \in Terminal)
                 => /\ hasIncident(store', id)
                    /\ store'[id].current_stage = store[id].current_stage
       /\ \A i \in 1..(Len(last'.trans) - 1) :
             last'.trans[i] \in Terminal => last'.trans[i + 1] = last'.trans[i]]_vars

\* C2: executeRemediation is entered only when, in that cycle, the evaluator
\* returned true and requiresApproval was false, or when a human approve
\* decision on the pending approval was consumed; in every other case the
\* cycle hands off to requestHumanApproval.
C2_AutoExecutionGate ==
    /\ last.execEntered > 0 =>
           \/ last.gate = "auto" /\ last.evalResult /\ ~last.requiresApproval
           \/ last.decision = "approve"
    /\ (last.gate # "none" /\ ~(last.evalResult /\ ~last.requiresApproval)) =>
           /\ last.gate = "approval"
           /\ last.approvalRequests = 1
           /\ last.execEntered = 0

\* C3: the evaluator returns true exactly when risk is not HIGH, hypothesis
\* confidence >= 90, context match score >= 85, remediation confidence >= 70
\* and no critical edge case is present; a value equal to its threshold passes.
C3_EvaluatorSixRules ==
    ev.done =>
        (ev.enhanced <=>
            /\ ev.risk # "HIGH"
            /\ ev.hypothesisConfidence >= 90
            /\ ev.contextMatchScore >= 85
            /\ ev.remediationConfidence >= 70
            /\ ev.edgeCases \cap {"novel_failure", "conflicting_evidence",
                                  "data_sensitive", "high_blast_radius"} = {})

\* every score exactly at its threshold, a non-critical edge case: accepted
C3_Witness ==
    /\ ev.done
    /\ ev.risk = "MEDIUM"
    /\ ev.hypothesisConfidence = 90
    /\ ev.contextMatchScore = 85
    /\ ev.remediationConfidence = 70
    /\ ev.edgeCases = {"low_confidence"}
    /\ ev.enhanced

\* C4: the evaluator returns false whenever risk is HIGH, whatever the three
\* scores and the edge cases are.
C4_HighRiskNeverAutoExecutes ==
    (ev.done /\ ev.risk = "HIGH") => (~ev.base /\ ~ev.enhanced)

\* HIGH risk with every score at 100 and no edge case: declined
C4_Witness ==
    /\ ev.done
    /\ ev.risk = "HIGH"
    /\ ev.hypothesisConfidence = 100
    /\ ev.contextMatchScore = 100
    /\ ev.remediationConfidence = 100
    /\ ev.edgeCases = {}
    /\ ~ev.base
    /\ ~ev.enhanced

\* C5: with a critical edge case among the edge cases, the evaluator that the
\* synthesis branch calls returns false even when risk is not HIGH and the
\* three scores meet their thresholds.
C5_SynthesisEvaluatorHonoursEdgeCases ==
    (/\ ev.done
     /\ ev.edgeCases \cap {"novel_failure", "conflicting_evidence",
                           "data_sensitive", "high_blast_radius"} # {})
        => ~ev.base

\* C6: a cycle for which the Edge Case Detector returns requiresHuman = true
\* never enters executeRemediation directly and requests human approval.
C6_SynthesisHonoursDetector ==
    \A id \in Incidents :
        (/\ last.id = id
         /\ last.gate # "none"
         /\ hasIncident(store, id)
         /\ \A h \in HypothesisInputs, rc \in RunbookContexts :
                detect(h, store[id], rc).requiresHuman)
            => /\ last.gate = "approval"
               /\ last.approvalRequests = 1
               /\ last.execEntered = 0

\* C7: a second approval request for an incident whose pending approval
\* still exists raises an error (one that escapes the handler or that its
\* catch block turns into an escalation) and leaves the first pending record
\* as it was.
C7_SecondRequestRejected ==
    [][\A id \in Incidents :
          (/\ hasPendingApproval(approvals, id)
           /\ last'.id = id
           /\ last'.approvalRequests > 0)
              => /\ \/ last'.threw
                    \/ \E i \in DOMAIN last'.trans : last'.trans[i] = ESCALATED
                 /\ hasPendingApproval(approvals', id)
                 /\ approvals'[id] = approvals[id]]_vars

\* C8: an approval decision for an incident without a pending approval fails
\* with an error, changes no incident record and does not enter
\* executeRemediation.
C8_DecisionWithoutPendingFails ==
    [][\A id \in Incidents :
          (/\ last'.op = "approval"
           /\ last'.id = id
           /\ ~hasPendingApproval(approvals, id))
              => /\ last'.threw
                 /\ store' = store
                 /\ last'.execEntered = 0]_vars

\* C9: after a reject decision on a pending approval the pending record is
\* absent, the stored record is ESCALATED and carries human_rejected,
\* rejected_by and rejected_at, and nothing was executed.
C9_RejectEscalatesWithAudit ==
    \A id \in Incidents :
        (last.op = "approval" /\ last.id = id /\ last.decision = "reject")
            => /\ ~hasPendingApproval(approvals, id)
               /\ hasIncident(store, id)
               /\ store[id].current_stage = ESCALATED
               /\ Field(store[id], "human_rejected") = "true"
               /\ Field(store[id], "rejected_by") # NULL
               /\ Field(store[id], "rejected_at") # NULL
               /\ last.execEntered = 0
               /\ last.executed = 0

\* C10: after an approve decision on a pending approval the pending record is
\* cleared, the stored record carries human_approved = true, approved_by and
\* approved_at, and executeRemediation was entered exactly once.
C10_ApproveRecordsAndExecutesOnce ==
    \A id \in Incidents :
        (last.op = "approval" /\ last.id = id /\ last.decision = "approve")
            => /\ ~hasPendingApproval(approvals, id)
               /\ hasIncident(store, id)
               /\ Field(store[id], "human_approved") = "true"
               /\ Field(store[id], "approved_by") # NULL
               /\ Field(store[id], "approved_at") # NULL
               /\ last.execEntered = 1

\* C11: when the pending approval of an incident waiting in SYNTHESIZING
\* expires, the incident is not escalated and stays in SYNTHESIZING, and an
\* approve or reject decision that arrives when no pending approval exists
\* changes neither its stage nor anything else in the store and executes
\* nothing.
C11_ExpiredApprovalLeavesSynthesizing ==
    [][\A id \in Incidents :
          /\ (/\ last'.op = "expire"
              /\ last'.id = id
              /\ hasIncident(store, id)
              /\ store[id].current_stage = SYNTHESIZING)
                 => /\ hasIncident(store', id)
                    /\ store'[id].current_stage = SYNTHESIZING
          /\ (/\ last'.op = "approval"
              /\ last'.id = id
              /\ ~hasPendingApproval(approvals, id))
                 => /\ store' = store
                    /\ last'.trans = <<>>
                    /\ last'.execEntered = 0]_vars

\* an incident in SYNTHESIZING whose pending approval expired, after a
\* decision arrived: still in SYNTHESIZING, nothing run
C11_Witness ==
    \E id \in Incidents :
        /\ last.op = "approval"
        /\ last.id = id
        /\ last.decision = "missing"
        /\ hasIncident(store, id)
        /\ store[id].current_stage = SYNTHESIZING
        /\ ~hasPendingApproval(approvals, id)
        /\ last.execEntered = 0

\* C12: a processHypothesis cycle in which a context-retrieval collaborator
\* call failed (the redaction or the search request) escalates the incident
\* at once: ESCALATED is its only transition, made with error_stage =
\* "context_retrieval", and the cycle does not continue into synthesis.
C12_ContextFailureEscalates ==
    \A id \in Incidents :
        (/\ last.op = "processHypothesis"
         /\ last.id = id
         /\ hasIncident(store, id)
         /\ last.log \cap {"Skyflow redaction failed", "Sanity search failed"} # {})
            => /\ last.trans = <<ESCALATED>>
               /\ last.escalations = <<"context_retrieval">>
               /\ store[id].current_stage = ESCALATED

\* C13: no exception escapes a phase handler (processHypothesis,
\* executeRemediation, executeRemediationEnhanced, verifyRemediation) to its
\* caller, whether or not the incident id exists and whatever a collaborator
\* or the store answers.
C13_NoExceptionEscapes ==
    last.op \in {"processHypothesis", "executeRemediation",
                 "executeRemediationEnhanced", "verifyRemediation"}
        => ~last.threw

\* C14: after a processHypothesis cycle for an existing incident the incident
\* is RESOLVED, ESCALATED, or in SYNTHESIZING with a pending approval; it is
\* never left in CONTEXT_RETRIEVED, EXECUTING or VERIFYING, nor in
\* SYNTHESIZING without a pending approval.
C14_NoStuckMidPhase ==
    \A id \in Incidents :
        (/\ last.op = "processHypothesis"
         /\ last.id = id
         /\ hasIncident(store, id))
            => \/ store[id].current_stage \in Terminal
               \/ /\ store[id].current_stage = SYNTHESIZING
                  /\ hasPendingApproval(approvals, id)

\* a cycle that entered EXECUTING, created a workspace that never became
\* ready and so ran nothing: the incident is ESCALATED, not left in EXECUTING
C14_Witness ==
    \E id \in Incidents :
        /\ last.op = "processHypothesis"
        /\ last.id = id
        /\ hasIncident(store, id)
        /\ \E i \in DOMAIN last.trans : last.trans[i] = EXECUTING
        /\ last.workspaces = 1
        /\ last.executed = 0
        /\ store[id].current_stage = ESCALATED

\* C15: when the reasoning collaborator returns no result or a result
\* without executable code, the incident is escalated with error_stage =
\* "synthesis", neither executeRemediation nor requestHumanApproval is
\* called, and no pending approval is created.
C15_NoCodeEscalatesAsSynthesis ==
    \A id \in Incidents :
        (/\ last.id = id
         /\ hasIncident(store, id)
         /\ "No remediation code generated" \in last.log)
            => /\ store[id].current_stage = ESCALATED
               /\ last.escalations = <<"synthesis">>
               /\ last.execEntered = 0
               /\ last.approvalRequests = 0
               /\ ~last.approvalOverwritten

\* C16: when the pre-flight health check reports healthy after the incident
\* entered EXECUTING, the incident goes straight to RESOLVED, its record
\* carries resolution = "self_healed", no workspace is created and nothing
\* is executed.
C16_SelfHealResolves ==
    \A id \in Incidents :
        (/\ last.id = id
         /\ hasIncident(store, id)
         /\ "Pre-flight check passed" \in last.log)
            => /\ last.trans = <<EXECUTING, RESOLVED>>
               /\ store[id].current_stage = RESOLVED
               /\ Field(store[id], "resolution") = "self_healed"
               /\ last.workspaces = 0
               /\ last.executed = 0

\* C17: a cycle enters VERIFYING only after its execution ran and was not
\* reported failed; an execution whose result is missing or has a non-zero
\* exit code escalates the incident with error_stage = "execution" and
\* never enters VERIFYING.
C17_VerifyOnlyAfterExitZero ==
    \A id \in Incidents :
        (/\ last.id = id
         /\ hasIncident(store, id)
         /\ last.op # "verifyRemediation")
            => /\ (\E i \in DOMAIN last.trans : last.trans[i] = VERIFYING)
                      => /\ last.executed = 1
                         /\ "Remediation execution failed" \notin last.log
               /\ "Remediation execution failed" \in last.log
                      => /\ \A i \in DOMAIN last.trans : last.trans[i] # VERIFYING
                         /\ store[id].current_stage = ESCALATED
                         /\ last.escalations = <<"execution">>

\* C18: every workspace executeRemediation created has been handed to
\* deleteWorkspace when the handler returns, on every exit path.
C18_WorkspaceAlwaysDeleted ==
    last.workspaces > 0 => last.deleted = last.workspaces

\* C19: a run that entered VERIFYING ends in RESOLVED exactly when the
\* verification succeeded and in ESCALATED otherwise; a failure of the
\* resolution note after the transition to RESOLVED does not change that.
C19_VerifyOutcomeIsFinal ==
    \A id \in Incidents :
        (/\ last.id = id
         /\ hasIncident(store, id)
         /\ \E i \in DOMAIN last.trans : last.trans[i] = VERIFYING)
            => /\ store[id].current_stage \in Terminal
               /\ store[id].current_stage = RESOLVED
                      <=> last.log \cap {"Remediation verified successfully",
                                         "Remediation verified successfully (enhanced)"}
                             # {}

\* C20: after a phase handler or the approval gateway escalated an incident,
\* a note was posted on the incident and the stored record carries an error
\* message and an error_stage.
C20_EscalationNotifiesAndRecords ==
    \A id \in Incidents :
        (/\ last.id = id
         /\ hasIncident(store, id)
         /\ last.op \in {"processHypothesis", "executeRemediation",
                          "executeRemediationEnhanced", "verifyRemediation",
                          "approval"}
         /\ \E i \in DOMAIN last.trans : last.trans[i] = ESCALATED)
            => /\ last.notes > 0
               /\ Field(store[id], "error") # NULL
               /\ Field(store[id], "error_stage") # NULL

\* C21: every (from, to) pair of stages produced by transitionStage is an
\* edge of TRIGGERED -> INVESTIGATING -> HYPOTHESIS_RECEIVED ->
\* CONTEXT_RETRIEVED -> SYNTHESIZING -> EXECUTING -> VERIFYING -> RESOLVED,
\* the self-heal edge EXECUTING -> RESOLVED, or leads to ESCALATED from a
\* stage that is not terminal: no self-loop and no backward edge.  The
\* stages one handler run walks through are the stage the record had when
\* the handler started (the stage it was created with, when the handler
\* wrote the record itself) followed by the stages of its transitions.
C21_OnlyLegalTransitions ==
    [][\A id \in Incidents :
          LET chain == <<TRIGGERED, INVESTIGATING, HYPOTHESIS_RECEIVED,
                         CONTEXT_RETRIEVED, SYNTHESIZING, EXECUTING,
                         VERIFYING, RESOLVED>>
              legal(from, to) ==
                  \/ \E k \in 1..(Len(chain) - 1) :
                         from = chain[k] /\ to = chain[k + 1]
                  \/ from = EXECUTING /\ to = RESOLVED
                  \/ to = ESCALATED /\ from \notin Terminal
              walked == IF last'.created # "none"
                        THEN <<last'.created>> \o last'.trans
                        ELSE <<store[id].current_stage>> \o last'.trans
          IN  (/\ last'.id = id
               /\ last'.trans # <<>>
               /\ hasIncident(store, id) \/ last'.created # "none")
                  => \A k \in 1..(Len(walked) - 1) :
                         legal(walked[k], walked[k + 1])]_vars

\* C26: the first stage an incident record has after creation is TRIGGERED,
\* whichever entry point (incident.triggered, the late join of
\* incident.annotated, POST /debug/trigger) created it.
C26_CreatedAsTriggered ==
    [][\A id \in Incidents :
          (/\ ~hasIncident(store, id)
           /\ hasIncident(store', id))
              => last'.created = TRIGGERED]_vars

\* C22: stage_history is an append-only audit trail.  A successful
\* transitionStage call leaves a record whose stage_history is the one it
\* had before the call with one entry appended, the entry naming the stage
\* before and the stage after the call; an update leaves the stage_history
\* of the record as it was.  (A record starts with no entry, so after n
\* transitions it has exactly n, in call order.)
C22_StageHistoryAppendOnly ==
    [][\A id \in Incidents :
          LET history(rec) == IF "stage_history" \in DOMAIN rec
                              THEN rec.stage_history ELSE <<>>
          IN  (/\ last'.id = id
               /\ hasIncident(store, id)
               /\ ev'.res.ok)
                  => /\ last'.op = "transitionStage"
                        => /\ Len(history(store'[id])) = Len(history(store[id])) + 1
                           /\ LET e == history(store'[id])[Len(history(store'[id]))]
                              IN  /\ e.from = store[id].current_stage
                                  /\ e.to = ev'.stage
                           /\ SubSeq(history(store'[id]), 1, Len(history(store[id])))
                                  = history(store[id])
                     /\ last'.op = "updateIncidentState"
                        => history(store'[id]) = history(store[id])]_vars

\* C23: updateIncidentState(id, X) on an existing incident followed by
\* getIncidentState(id) yields a record that has the value of X for every
\* key of X, and the value it had before for every other field (updated_at
\* is refreshed).
C23_UpdateRoundTrip ==
    [][\A id \in Incidents :
          (/\ last'.op = "updateIncidentState"
           /\ last'.id = id
           /\ hasIncident(store, id))
              => \A rec \in getIncidentState(store', id) :
                     /\ \A k \in DOMAIN ev'.arg : Field(rec, k) = ev'.arg[k]
                     /\ \A k \in (DOMAIN store[id]) \ (DOMAIN ev'.arg \cup {"updated_at"}) :
                            Field(rec, k) = store[id][k]]_vars

\* C24: transitionStage and updateIncidentState on an incident id that has
\* no record throw the not-found error and leave the store unchanged: no
\* record is created for the id, no other record and no pending approval is
\* modified.
C24_AbsentIncidentIsNotFound ==
    [][\A id \in Incidents :
          (/\ last'.op \in {"updateIncidentState", "transitionStage"}
           /\ last'.id = id
           /\ ~hasIncident(store, id))
              => /\ ~ev'.res.ok
                 /\ store' = store
                 /\ approvals' = approvals]_vars

\* an update or a transition was refused for an id without a record, and
\* the id still has none
C24_Witness ==
    \E id \in Incidents :
        /\ last.op \in {"updateIncidentState", "transitionStage"}
        /\ last.id = id
        /\ ~ev.res.ok
        /\ ~hasIncident(store, id)

\* C27: getActiveIncidents returns exactly the stored records whose stage
\* is not terminal: no RESOLVED and no ESCALATED record, and every other.
C27_ListActiveIsNonTerminal ==
    last.op = "getActiveIncidents"
        => ev.res.value = {store[k] : k \in {j \in DOMAIN store :
                                               store[j].current_stage \notin Terminal}}

\* C28: while no TTL elapses, the manager on the in-process Map answers
\* every call as the manager on the Redis client does, and holds the same
\* records under the same keys.
C28_MemoryModeEquivalent ==
    /\ ev.memRes = ev.res
    /\ DOMAIN ev.mem = {IncidentKey(id) : id \in DOMAIN store}
                           \cup {ApprovalKey(id) : id \in DOMAIN approvals}
    /\ \A id \in DOMAIN store : ev.mem[IncidentKey(id)] = store[id]
    /\ \A id \in DOMAIN approvals : ev.mem[ApprovalKey(id)] = approvals[id]

\* getActiveIncidents answered with a record while the Map also holds a
\* pending approval
C28_Witness ==
    /\ last.op = "getActiveIncidents"
    /\ ev.memRes.value # {}
    /\ \E id \in Incidents : ApprovalKey(id) \in DOMAIN ev.mem

\* C25: a trigger event for an incident id that already has a record is a
\* no-op, whatever stage the incident is in and also when two deliveries for
\* the same new id run concurrently: a step of a delivery that has not
\* itself created the record, taken while the id has a record, leaves the
\* stored record (stage and every field) as it was.
C25_TriggerIsIdempotent ==
    [][\A d \in Deliveries :
          (/\ last'.op = "triggered"
           /\ ev'.who = d
           /\ ev.pc[d] \in {"idle", "done", "create"}
           /\ hasIncident(store, ev'.id[d]))
              => store' = store]_vars

C30_ApprovalRequestIsRecorded ==
    \A id \in Incidents :
        (/\ last.id = id
         /\ last.gate = "approval"
         /\ "Human approval requested" \in last.log)
            => /\ hasPendingApproval(approvals, id)
               /\ Field(approvals[id], "remediation_code") # NULL
               /\ Field(approvals[id], "hypothesis") # NULL
               /\ Field(approvals[id], "risk") # NULL
               /\ hasIncident(store, id)
               /\ store[id].current_stage = SYNTHESIZING
               /\ last.execEntered = 0
               /\ EXECUTING \notin {last.trans[i] : i \in 1..Len(last.trans)}
               /\ Field(store[id], "pending_approval") = "true"
               /\ Field(store[id], "approval_requested_at") # NULL

\* C31: an unconfigured collaborator makes the operation fail before any
\* state mutation: when the approval channel is not configured, the cycle
\* stores no pending approval and does not mark the incident
\* pending_approval, and when the execution collaborator is not configured
\* the cycle does not transition the incident to EXECUTING.
C31_UnconfiguredFailsBeforeMutation ==
    [][\A id \in Incidents :
          /\ (/\ last'.id = id
              /\ "Slack not configured - cannot request approval" \in last'.log)
                 => /\ approvals' = approvals
                    /\ ~hasPendingApproval(approvals', id)
                    /\ hasIncident(store', id)
                         => Field(store'[id], "pending_approval") # "true"
          /\ (/\ last'.id = id
              /\ "Coder not configured - cannot create workspace" \in last'.log)
                 => EXECUTING \notin {last'.trans[i] : i \in 1..Len(last'.trans)}]_vars

\* C32: the store has no mutual exclusion per incident.  The write of
\* updateIncidentState and of transitionStage stores the copy of the record
\* the task read before it gave up control, merged with the task's own
\* changes, whatever another task has written to the record since: a field
\* or stage the other task wrote is overwritten by the stale copy.
C32_WriteStoresStaleCopy ==
    [][\A t \in Tasks :
          (/\ ev.pc[t] = "write"
           /\ ev'.pc[t] = "idle"
           /\ ev'.who = t)
              => /\ store'[ev.id[t]] =
                        IncidentData(ev.id[t],
                                     Spread(ev.current[t], ev.call[t].updates))
                 /\ \A k \in RecordFields(store[ev.id[t]]) \ DOMAIN ev.call[t].updates :
                        store'[ev.id[t]][k] = ev.current[t][k]]_vars

\* a lost update: a task has just written, and a field another task had
\* changed after this task's read is back at the value of the stale copy
C32_Witness ==
    /\ ev.lost
    /\ \E t \in Tasks : ev.who = t /\ ev.pc[t] = "idle"

\* C33: the detector tags low_confidence exactly when the hypothesis
\* confidence is below the configured threshold (60 when none is
\* configured), for every confidence from 0 to 100, 0 included; a hypothesis
\* without a confidence has no confidence below the threshold.
C33_LowConfidenceExact ==
    ev.done
        => ("low_confidence" \in ev.result.edgeCases
               <=> /\ ev.hypothesis.confidence # NULLN
                   /\ ev.hypothesis.confidence < confidenceThresholdOf(ev.option))

\* C34: detect returns requiresHuman = true if and only if its tags contain
\* novel_failure, conflicting_evidence, high_blast_radius or data_sensitive;
\* the other five tags alone never set it.
C34_RequiresHumanIffForcingTag ==
    ev.done
        => (ev.result.requiresHuman
               <=> ev.result.edgeCases \cap
                       {"novel_failure", "conflicting_evidence",
                        "high_blast_radius", "data_sensitive"} # {})

\* detect returned tags, none of them forcing, customer_facing_critical and
\* low_confidence among them, and did not require a human
C34_Witness ==
    /\ ev.done
    /\ {"customer_facing_critical", "low_confidence"} \subseteq ev.result.edgeCases
    /\ ev.result.edgeCases \subseteq
           {"low_confidence", "ambiguous_root_cause", "multiple_failures",
            "cascading_failure", "customer_facing_critical"}
    /\ ~ev.result.requiresHuman

\* C35: of two decisions processed concurrently for the same pending
\* approval at most one takes effect: executeRemediation is invoked at most
\* once for it, and the incident is not both executed and escalated as
\* rejected.
C35_AtMostOneDecisionTakesEffect ==
    \A id \in Incidents :
        Cardinality({d \in Deciders : ev.id[d] = id /\ ev.acted[d] # "none"}) <= 1

\* C36: the Execution collaborator is invoked at most once per incident,
\* and an annotation event that arrives after the incident has passed
\* HYPOTHESIS_RECEIVED does not restart the pipeline.  A stored
\* verification_status shows that the remediation of the incident was run
\* (verification follows an execution): no handler runs the Execution
\* collaborator for such an incident, and an annotation event for an
\* incident past HYPOTHESIS_RECEIVED makes no transition and runs nothing.
C36_AtMostOneExecution ==
    [][\A id \in Incidents :
          (hasIncident(store, id) /\ last'.id = id)
              => /\ store[id].verification_status # NULL
                    => last'.executed = 0
                 /\ (/\ last'.op = "annotated"
                     /\ store[id].current_stage \notin
                            {TRIGGERED, INVESTIGATING, HYPOTHESIS_RECEIVED})
                    => /\ last'.trans = <<>>
                       /\ last'.executed = 0]_vars

\* C37: whenever a pending approval exists for an incident, the incident is
\* in SYNTHESIZING: no incident in another stage, and no missing incident,
\* has a pending approval left behind.
C37_PendingApprovalOnlyInSynthesizing ==
    \A id \in Incidents :
        hasPendingApproval(approvals, id)
            => /\ hasIncident(store, id)
               /\ store[id].current_stage = SYNTHESIZING

C39_FallbackIsSticky ==
    \A id \in Incidents :
        (/\ last.op = "getIncidentState"
         /\ last.id = id
         /\ ev.fellBack
         /\ id \in ev.written)
            => ev.res.value # {}

\* C40: a run of processPendingLearning ingests a learning record only if
\* its ingest_after has passed and it was never marked ineffective, no
\* record is ingested more than once, and a record whose ingestion failed
\* is there for the next run to read.
C40_DelayedLearning ==
    last.op = "processPendingLearning" =>
        /\ \A r \in ev.ingestedNow :
               /\ ev.now >= r.ingest_after
               /\ r.id \notin ev.everMarked
               /\ r.id \notin DOMAIN ev.records
        /\ \A id \in Incidents : ev.ingested[id] <= 1
        /\ ev.failedNow \subseteq DOMAIN ev.records
        /\ ev.retry \subseteq ev.seen

====
